-------------------------- MODULE MCServiceRegistry --------------------------
(***************************************************************************)
(* Small instances of ServiceRegistry for TLC.                             *)
(***************************************************************************)
EXTENDS ServiceRegistry, TLC

CONSTANTS s1, s2, o1, o2, o3, v0, v1, solarcharger, vebus, system,
          inst, power, serial, tunnel

\* All services are of one type, which is what short names must tell apart.
MCServiceType    == [s \in Services |-> CHOOSE t \in Types : TRUE]
MCDeviceInstance == [s \in Services |-> IF s = s1 THEN 1 ELSE 2]

\* In the Requests run, a retained topic and one that is never published.
MCRetained == {<<system, serial>>}
MCBlocked  == {<<system, tunnel>>}

\* Which unique name is which does not matter.
OwnerSymmetry == Permutations(Owners)

=============================================================================
