---------------------------- MODULE FileLifecycle ----------------------------
(***************************************************************************)
(* What the claim protocol promises about one file, without rows, leases,  *)
(* owners and statements: a file is open, held by at most one worker at a  *)
(* time, and leaves its holder loaded, skipped or failed, where failing    *)
(* counts an attempt and only max_retries attempts are made.  A held file  *)
(* may lose its worker (crash, database error) and be picked up again.     *)
(* The promise ends, for one file, when the lease of a worker that is      *)
(* still processing it is taken over: that file is then broken.            *)
(*                                                                         *)
(* FileProcessor implements this specification (ImplementsLifecycle).      *)
(***************************************************************************)
EXTENDS Naturals

CONSTANTS File, Worker, MaxRetries

VARIABLES stage,     \* stage[f]: how far f has come
          attempts,  \* attempts[f]: the failures counted since f was open
          holders,   \* holders[f]: the workers that process f
          broken     \* broken[f]: was a lease of f taken from a processing worker?

lifecycleVars == <<stage, attempts, holders, broken>>

Stage == {"open", "held", "failed", "set_aside", "loaded", "skipped"}

Init ==
    /\ stage    = [f \in File |-> "open"]
    /\ attempts = [f \in File |-> 0]
    /\ holders  = [f \in File |-> {}]
    /\ broken   = [f \in File |-> FALSE]

Moves(f, s, n, h) == stage'[f] = s /\ attempts'[f] = n /\ holders'[f] = h

Stay(f) == Moves(f, stage[f], attempts[f], holders[f])

\* A new file, or a failed one with attempts left, is claimed; nobody has it.
Acquire(f) ==
    \/ stage[f] = "open" /\ Moves(f, "held", 0, {})
    \/ /\ stage[f] = "failed" /\ attempts[f] < MaxRetries
       /\ Moves(f, "held", attempts[f], {})

Begin(f) ==
    /\ stage[f] = "held" /\ holders[f] = {}
    /\ \E w \in Worker : Moves(f, "held", attempts[f], {w})

\* The holder records its outcome, or disappears and leaves the file held.
Leave(f) ==
    /\ stage[f] = "held" /\ holders[f] # {}
    /\ \/ \E s \in {"held", "loaded", "skipped"} : Moves(f, s, attempts[f], {})
       \/ Moves(f, "failed", attempts[f] + 1, {})

\* An operator resets a failed file: its attempts count from 0, but no stage
\* leads on from here.
Reset(f) == stage[f] = "failed" /\ Moves(f, "set_aside", 0, {})

FileStep(f) ==
    \/ broken'[f]
    \/ /\ ~broken[f] /\ ~broken'[f]
       /\ Stay(f) \/ Acquire(f) \/ Begin(f) \/ Leave(f) \/ Reset(f)

\* A crash may move several files at once.
Next == \A f \in File : FileStep(f)

Spec == Init /\ [][Next]_lifecycleVars
=============================================================================
