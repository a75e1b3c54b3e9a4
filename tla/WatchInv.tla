------------------------------ MODULE WatchInv -------------------------------
(***************************************************************************)
(* The invariants behind what kb watch and its builds promise: see         *)
(* WatchProofs.                                                            *)
(***************************************************************************)
EXTENDS Watch

(* The goroutines that have a token.                                       *)
Holding == {f \in File : at[f] \in {"compiling", "leaving"}}

(* Every job has a goroutine, from StartJobs on.  One that is done with    *)
(* its compile has left an article or an error of what it has read.        *)
PoolInv ==
    /\ sem = Cardinality(Holding) /\ sem <= Concurrency
    /\ article = cached
    /\ phase # "compiling" => \A f \in File : at[f] \in {"none", "left"}
    /\ phase = "reading" => results = {}
    /\ phase = "compiling" =>
          \A f \in File : /\ at[f] = "none" <=> job[f] = None
                          /\ f \in results => at[f] \in {"leaving", "left"}
                          /\ at[f] \in {"leaving", "left"} => f \in results \/ failed[f] = job[f]

(* What becomes of a file as it is: a build is going to read it, has read  *)
(* it, or has found it in the cache; or builds have dealt with it.         *)
Handled(f) ==
    \/ phase \in {"start", "scan"}
    \/ phase = "reading" /\ f \in todo
    \/ phase \in {"reading", "compiling"} /\ (job[f] = content[f] \/ (job[f] = None /\ content[f] = article[f]))
    \/ phase \in {"opening", "watching"} /\ content[f] \in {article[f], failed[f]}

(* Or a rebuild is still to come for it.                                   *)
Expected(f) == timer # "off" \/ \E i \in DOMAIN queue : queue[i] = [file |-> f, op |-> "write"]

ChangesInv == \A f \in Watched \ missed : content[f] = None \/ Handled(f) \/ Expected(f)

IInv == TypeOK /\ PoolInv /\ (Globs = 1 => ChangesInv)
=============================================================================
