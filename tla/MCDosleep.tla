------------------------------ MODULE MCDosleep ------------------------------
(* Instances of Dosleep for TLC. *)
EXTENDS Dosleep, TLC

CONSTANTS d1, d2

MCDevices == {d1, d2}

\* No interval of their own, one device checked more often or more rarely, both with
\* shorter intervals, and both with longer ones.
MCConfigs == {(d1 :> 0) @@ (d2 :> 0), (d1 :> 3) @@ (d2 :> 0), (d1 :> 2) @@ (d2 :> 3),
              (d1 :> 7) @@ (d2 :> 0), (d1 :> 6) @@ (d2 :> 7)}

=============================================================================
