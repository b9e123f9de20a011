----------------------------- MODULE LogHistory -----------------------------
(***************************************************************************)
(* GET /api/logs/history without an agent: the request first enforces the    *)
(* limits on the log directory (RemoveExpired, then PruneToTotalLimit) and   *)
(* then reads the files that are left.  Each of the three lists the          *)
(* directory and then touches the files one by one, so requests meet files   *)
(* another one has removed.  All files have the same size and every age is   *)
(* different; the age is a duration, as the retention is.                    *)
(***************************************************************************)
EXTENDS Settings, FiniteSets

CONSTANTS
    Files,      \* the log files, numbered in the order of their paths
    Age,        \* how old each is
    DefaultLimit    \* the limit in force when the configured one is not positive

ASSUME AgeAssumption ==
    /\ Files \subseteq Nat /\ IsFiniteSet(Files)
    /\ Age \in [Files -> Nat \ {0}]
    /\ \A f, g \in Files : Age[f] = Age[g] => f = g
    /\ {"retention", "limit"} \subseteq Words
    /\ DefaultLimit \in Nat

VARIABLES
    files,      \* the files in the log directory
    hist,       \* the locals of a request's handler
    held,       \* history: the files every configuration in force so far keeps
    mingled     \* history: the requests that met another one

histVars == <<files, hist, held, mingled>>

First(S) == CHOOSE f \in S : \A g \in S : f <= g
Oldest(S) == CHOOSE f \in S : \A g \in S : Age[f] >= Age[g]

Reading == {c \in Conns : at[c] \in {"unlink", "prune", "read"}}
Removing == {c \in Conns : at[c] \in {"unlink", "prune"}}

(* logFiles: a file that vanishes while the directory is walked makes the    *)
(* directory look missing, which is taken for an empty one.                  *)
Listings(c) == {files} \cup {{} : d \in Removing \ {c}}

Limit == IF memory["limit"] > 0 THEN memory["limit"] ELSE DefaultLimit

(* What a retention and a limit keep of F: the files of the retention, and   *)
(* of these the newest up to the limit.                                     *)
Kept(F, retention, limit) ==
    {f \in F : /\ Age[f] <= retention
               /\ Cardinality({g \in F : Age[g] < Age[f]}) < limit}

-----------------------------------------------------------------------------
(* RemoveExpired reads the retention and lists the directory.                *)
Expire(c) ==
    /\ at[c] = "expire"
    /\ mingled' = IF Reading = {} THEN mingled ELSE mingled \cup Reading \cup {c}
    /\ IF memory["retention"] <= 0
       THEN Answer(c, "error") /\ UNCHANGED hist
       ELSE /\ \E listing \in Listings(c) :
                hist' = [hist EXCEPT ![c].list =
                            {f \in listing : Age[f] > memory["retention"]}]
            /\ Go(c, "unlink")
    /\ UNCHANGED <<files, held>>

(* An expired file is removed; one that is gone already ends the request.    *)
(* After the last, PruneToTotalLimit lists the directory.                    *)
Unlink(c) ==
    /\ at[c] = "unlink"
    /\ IF hist[c].list = {}
       THEN /\ \E listing \in Listings(c) :
                    hist' = [hist EXCEPT ![c].list = listing, ![c].limit = Limit]
            /\ Go(c, "prune")
            /\ UNCHANGED files
       ELSE LET f == First(hist[c].list)
            IN  /\ files' = files \ {f}
                /\ hist' = [hist EXCEPT ![c].list = @ \ {f}]
                /\ IF f \in files THEN UNCHANGED reqVars ELSE Answer(c, "error")
    /\ UNCHANGED <<held, mingled>>

(* The same removing the newest first.                                       *)
PruneNewest(c) ==
    /\ at[c] = "prune"
    /\ IF Cardinality(hist[c].list) <= hist[c].limit
       THEN /\ hist' = [hist EXCEPT ![c].list = files]
            /\ Go(c, "read")
            /\ UNCHANGED files
       ELSE LET f == CHOOSE g \in hist[c].list :
                        \A h \in hist[c].list : Age[g] <= Age[h]
            IN  /\ files' = files \ {f}
                /\ hist' = [hist EXCEPT ![c].list = @ \ {f}]
                /\ IF f \in files THEN UNCHANGED reqVars ELSE Answer(c, "error")
    /\ UNCHANGED <<held, mingled>>

(* The oldest files go while the listing is over the limit.  Then            *)
(* readHistoricalLogs walks the directory.                                   *)
Prune(c) ==
    /\ at[c] = "prune"
    /\ IF Cardinality(hist[c].list) <= hist[c].limit
       THEN /\ hist' = [hist EXCEPT ![c].list = files]
            /\ Go(c, "read")
            /\ UNCHANGED files
       ELSE LET f == Oldest(hist[c].list)
            IN  /\ files' = files \ {f}
                /\ hist' = [hist EXCEPT ![c].list = @ \ {f}]
                /\ IF f \in files THEN UNCHANGED reqVars ELSE Answer(c, "error")
    /\ UNCHANGED <<held, mingled>>

(* A file is read; one that is gone ends the walk, and the request answers   *)
(* with the lines it has.                                                    *)
Read(c) ==
    /\ at[c] = "read"
    /\ IF hist[c].list = {}
       THEN Answer(c, "history") /\ UNCHANGED hist
       ELSE LET f == First(hist[c].list)
            IN  /\ hist' = [hist EXCEPT
                        ![c].list = IF f \in files THEN @ \ {f} ELSE {},
                        ![c].shown = @ \cup ({f} \cap files)]
                /\ UNCHANGED reqVars
    /\ UNCHANGED <<files, held, mingled>>

HistoryStep(c) == Expire(c) \/ Unlink(c) \/ Prune(c) \/ Read(c)

(* Beside every change of the configuration.                                 *)
Hold ==
    held' = held \cap Kept(Files, memory'["retention"], Limit')

HistoryInit ==
    /\ files = Files
    /\ hist = [c \in Conns |-> [list |-> {}, limit |-> 0, shown |-> {}]]
    /\ held = Kept(Files, memory["retention"], Limit)
    /\ mingled = {}

-----------------------------------------------------------------------------
HistoryTypeOK ==
    /\ files \subseteq Files
    /\ hist \in [Conns -> [list : SUBSET Files, limit : Int, shown : SUBSET Files]]
    /\ held \subseteq Files
    /\ mingled \subseteq Conns

=============================================================================
