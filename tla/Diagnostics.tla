----------------------------- MODULE Diagnostics -----------------------------
(***************************************************************************)
(* Diagnostic bundles (astrotool_core/diagnostics): the applications of    *)
(* one machine capture into one directory, each capture followed by the    *)
(* retention that removes old bundles while another application may still  *)
(* be writing one; and the copy of a bundle to the developer's machine,    *)
(* which may break off.                                                    *)
(***************************************************************************)
EXTENDS Integers, Sequences, FiniteSets

CONSTANTS
  Apps,        \* applications, each with a service of its own
  MaxBundles,  \* bundles kept
  MaxAge,      \* the age past which a bundle is removed
  ClockSteps,  \* whether the wall clock may be set back
  MaxTime,     \* bound: the wall clock
  MaxCaptures  \* bound: captures

VARIABLES
  clock,    \* the wall clock
  bundles,  \* every bundle begun: [made, time, seq, written, removed]; written:
            \* it has its incident
  app,      \* what each application does: [at, id, seq, list]
  local,    \* the developer's copy of the first bundle: [there, incident, whole, broken]; whole: the
            \* last transfer ended well and the incident is there; broken: it was reported as failed
  pulled    \* the last pull returned it

diagnosticsVars == <<clock, bundles, app, local, pulled>>

Idle == "idle"
Ids == 1 .. Len(bundles)
Present == {i \in Ids : bundles[i].removed = "no"}

-----------------------------------------------------------------------------
(* Retention.                                                                *)

\* What bundles are ordered by: their incident's time stamp, ties broken by the service's own
\* counter, or the time of the directory where there is no readable incident.
Key(i) ==
  IF bundles[i].written THEN <<bundles[i].time, bundles[i].seq>>
  ELSE <<bundles[i].made, 0>>

AtMost(k, l) == k[1] < l[1] \/ (k[1] = l[1] /\ k[2] <= l[2])

Remove(ids, why) ==
  [i \in Ids |-> IF i \in ids THEN [bundles[i] EXCEPT !.removed = why] ELSE bundles[i]]

-----------------------------------------------------------------------------
(* A capture, on the GUI thread of one application.                          *)

Ends(a) == app' = [app EXCEPT ![a].at = Idle, ![a].id = 0, ![a].list = {}]

\* A capture by the user or for an unhandled exception: the context is collected, whatever of it
\* fails, and a directory made.
Capture(a) ==
  /\ app[a].at = Idle /\ Len(bundles) < MaxCaptures
  /\ bundles' = Append(bundles, [made |-> clock, time |-> clock, seq |-> 0, written |-> FALSE,
                                 removed |-> "no"])
  /\ app' = [app EXCEPT ![a].at = "incident", ![a].id = Len(bundles) + 1]
  /\ UNCHANGED <<clock, local, pulled>>

\* The incident is stamped and written, unless the directory is gone or the disk full.
WriteIncident(a) ==
  /\ app[a].at = "incident"
  /\ LET i == app[a].id
     IN  \/ /\ i \in Present
            /\ bundles' = [bundles EXCEPT ![i].time = clock, ![i].seq = app[a].seq,
                                          ![i].written = TRUE]
            /\ app' = [app EXCEPT ![a].at = "rest", ![a].seq = @ + 1]
         \/ bundles' = bundles
            /\ app' = [app EXCEPT ![a].at = Idle, ![a].id = 0, ![a].seq = @ + 1]
  /\ UNCHANGED <<clock, local, pulled>>

\* Then the log, frames and images; a frame that cannot be saved is left out.
WriteRest(a) ==
  /\ app[a].at = "rest"
  /\ \/ app[a].id \in Present /\ app' = [app EXCEPT ![a].at = "pruning"]
     \/ Ends(a)
  /\ UNCHANGED <<clock, bundles, local, pulled>>

\* The directory is read; the aged bundles are removed, where that succeeds.
PruneAged(a) ==
  /\ app[a].at = "pruning"
  /\ LET aged == {i \in Present : Key(i)[1] < clock - MaxAge}
     IN  /\ \E r \in SUBSET aged : bundles' = Remove(r, "aged")
         /\ app' = [app EXCEPT ![a].at = "sorting", ![a].list = Present \ aged]
  /\ UNCHANGED <<clock, local, pulled>>

\* The rest is ordered, and what is in excess removed from its old end. A bundle that another
\* application has removed meanwhile ends the retention. Either way the capture has succeeded.
PruneExcess(a) ==
  /\ app[a].at = "sorting"
  /\ LET list == app[a].list
     IN  IF ~(list \subseteq Present) THEN bundles' = bundles
         ELSE \E old \in SUBSET list :
                /\ Cardinality(old)
                     = IF Cardinality(list) > MaxBundles THEN Cardinality(list) - MaxBundles ELSE 0
                /\ \A i \in old, j \in list \ old : AtMost(Key(i), Key(j))
                /\ \E r \in SUBSET old : bundles' = Remove(r, "excess")
  /\ Ends(a)
  /\ UNCHANGED <<clock, local, pulled>>

-----------------------------------------------------------------------------
(* The copy.                                                                 *)

\* A transfer is checked for its exit status and its incident.
Complete(copy, ok) == ok /\ copy.incident

\* What a transfer leaves: all that is written, or, where it breaks off, some of it or nothing.
Transferred(ok) ==
  LET all == [local EXCEPT !.there = TRUE, !.incident = @ \/ bundles[1].written]
  IN  IF ok THEN {all} ELSE {local, [local EXCEPT !.there = TRUE], all}

\* pull_bundle: a copy that is there is returned as it is; otherwise the bundle is found on the
\* machine and copied. A failed copy stays.
Pull(force) ==
  /\ IF local.there /\ ~force THEN pulled' = TRUE /\ local' = local
     ELSE IF 1 \notin Present THEN pulled' = FALSE /\ local' = local
     ELSE \E ok \in BOOLEAN : \E copy \in Transferred(ok) :
            /\ pulled' = Complete(copy, ok)
            /\ local' = [copy EXCEPT !.whole = ok /\ copy.incident, !.broken = ~pulled']
  /\ UNCHANGED <<clock, bundles, app>>

-----------------------------------------------------------------------------
\* Time passes; the clock may be set back.
Clock ==
  /\ clock' \in {t \in 1 .. MaxTime : t = clock + 1 \/ (ClockSteps /\ t < clock)}
  /\ UNCHANGED <<bundles, app, local, pulled>>

DiagnosticsInit ==
  /\ clock = 1 /\ bundles = <<>> /\ pulled = FALSE
  /\ local = [there |-> FALSE, incident |-> FALSE, whole |-> FALSE, broken |-> FALSE]
  /\ app = [a \in Apps |-> [at |-> Idle, id |-> 0, seq |-> 0, list |-> {}]]

DiagnosticsNext ==
  \/ Clock
  \/ \E a \in Apps : Capture(a) \/ WriteIncident(a) \/ WriteRest(a) \/ PruneAged(a) \/ PruneExcess(a)
  \/ \E force \in BOOLEAN : Pull(force)

DiagnosticsSpec == DiagnosticsInit /\ [][DiagnosticsNext]_diagnosticsVars

-----------------------------------------------------------------------------
\* Types; an application is within one step of one bundle at a time (_capture).
DiagnosticsTypeOK ==
  /\ clock \in 1 .. MaxTime /\ pulled \in BOOLEAN
  /\ local \in [there : BOOLEAN, incident : BOOLEAN, whole : BOOLEAN, broken : BOOLEAN]
  /\ \A i \in Ids : /\ {bundles[i].made, bundles[i].time} \subseteq 1 .. MaxTime
                    /\ bundles[i].removed \in {"no", "aged", "excess"}
  /\ \A a \in Apps : app[a].at \in {Idle, "incident", "rest", "pruning", "sorting"}

\* Whatever the applications capture and remove side by side, a bundle -- one that is still being
\* written, one just reported to the user -- is removed only past its age or where MaxBundles
\* later ones have been begun, as long as the clock is not set back.
NewestKept ==
  \A i \in Ids :
    LET stamp == IF ~bundles[i].written THEN <<bundles[i].made, 0>>
                 ELSE <<bundles[i].time, bundles[i].seq>>
    IN  /\ bundles[i].removed = "excess" =>
             Cardinality({j \in Ids \ {i} : AtMost(stamp, <<bundles[j].time, bundles[j].seq>>)})
               >= MaxBundles
        /\ bundles[i].removed = "aged" => clock - stamp[1] > MaxAge

\* A pull returns a copy whose last transfer ended well and left its incident, or one whose last
\* transfer an earlier pull reported as failed.
PullReported == pulled => (local.whole \/ local.broken)
=============================================================================
