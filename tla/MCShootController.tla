-------------------------- MODULE MCShootController --------------------------
(* Instances of ShootController for TLC.                                   *)
EXTENDS ShootController, TLC

CONSTANTS s1,              \* a Shoot
          web, dns,        \* addons
          sWeb, sDns       \* names of instances

\* Two versions of one addon, and a manifest of the other one.
Web1 == [addon |-> web, ns |-> "garden", version |-> 1]
Web2 == [addon |-> web, ns |-> "garden", version |-> 2]
Dns1 == [addon |-> dns, ns |-> "garden", version |-> 1]
SomeManifests == {Web1, Web2, Dns1}

AtFirst == {{Web1}, {Web1, Dns1}}

SomeAnnotations == {<<web, dns>>, <<dns, dns>>, Broken}

OneName == [p \in Keys \X Addons |-> IF p[2] = web THEN sWeb ELSE sDns]

ThreeDisturbances == [[d \in Disturbances |-> 1] EXCEPT !["any"] = 3]
=============================================================================
