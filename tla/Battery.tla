------------------------------- MODULE Battery -------------------------------
(***************************************************************************)
(* What a run of the script promises, with no daemon, log or link in it:   *)
(* the files of `todo` are compiled by the guest one at a time and in      *)
(* order, the script accepts a file only once the guest has compiled it,   *)
(* blames a file only if it is the next one and does not compile, and      *)
(* succeeds only when every file was accepted.                             *)
(***************************************************************************)
EXTENDS Naturals, Sequences

CONSTANT Batteries   \* the file sequences a run may be asked to push

VARIABLES
  todo,      \* the files of this run, in order
  bad,       \* those of them that do not compile
  loaded,    \* how many of them the guest has compiled
  accepted,  \* how many of them the script has seen compiled
  verdict

vars == <<todo, bad, loaded, accepted, verdict>>

Init ==
  /\ todo = <<>> /\ bad = {} /\ loaded = 0 /\ accepted = 0 /\ verdict = "none"

Begin ==
  /\ verdict = "none"
  /\ todo' \in Batteries
  /\ bad' \in SUBSET {todo'[i] : i \in DOMAIN todo'}
  /\ verdict' = "running"
  /\ UNCHANGED <<loaded, accepted>>

\* The guest compiles the file it was sent, also after the script gave up.
Load ==
  /\ loaded = accepted /\ loaded < Len(todo)
  /\ todo[loaded + 1] \notin bad
  /\ loaded' = loaded + 1
  /\ UNCHANGED <<todo, bad, accepted, verdict>>

Accept ==
  /\ verdict = "running" /\ accepted < loaded
  /\ accepted' = accepted + 1
  /\ UNCHANGED <<todo, bad, loaded, verdict>>

Reject ==
  /\ verdict = "running"
  /\ accepted < Len(todo) /\ todo[accepted + 1] \in bad
  /\ verdict' = "compile_fail"
  /\ UNCHANGED <<todo, bad, loaded, accepted>>

Succeed ==
  /\ verdict = "running" /\ accepted = Len(todo)
  /\ verdict' = "ok"
  /\ UNCHANGED <<todo, bad, loaded, accepted>>

\* A file whose code never ends.
GiveUp ==
  /\ verdict = "running"
  /\ verdict' = "timeout"
  /\ UNCHANGED <<todo, bad, loaded, accepted>>

Next == Begin \/ Load \/ Accept \/ Reject \/ Succeed \/ GiveUp

Spec == Init /\ [][Next]_vars
=============================================================================
