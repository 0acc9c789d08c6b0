--------------------------- MODULE MCSettingsLock ---------------------------
(* Instances of SettingsLock for TLC: who edits what, and under which PID. *)
EXTENDS SettingsLock, TLC

CONSTANTS a, b, c

\* An install, a switch and a preset update, the last two writing the same preset.
EditKinds == (a :> "cas") @@ (b :> "select") @@ (c :> "merge")
EditChoices == (a :> "mine") @@ (b :> "theirs") @@ (c :> "theirs")

\* Two containers that share DSH_HOME: a and b have the same PID.
SharedPids == (a :> "pid-a") @@ (b :> "pid-a") @@ (c :> "pid-c")

\* Two rollbacks that move settings.yaml away.
MoveKinds == (a :> "move") @@ (b :> "move")
MoveChoices == (a :> "mine") @@ (b :> "theirs")
MovePids == (a :> "pid-a") @@ (b :> "pid-a")
=============================================================================
