--------------------------- MODULE PushErrorWindow ---------------------------
(***************************************************************************)
(* How a tunnel counts the errors of its pushes: scLoop and recordPushErr of *)
(* internal/tunnel.go, with time in abstract units.                          *)
(***************************************************************************)
EXTENDS Integers, FiniteSets

CONSTANTS
  Window,   \* recordPushErrStartAt, the length of the window
  Limit,    \* recordPushErrCount, the number of errors that is still accepted
  MaxTime   \* bound: the last instant of a behaviour

\* What the theorems assume of the constants.
WindowAssumption == Window \in Nat /\ Limit \in Nat /\ MaxTime \in Nat

\* The zero time.Time of a new tunnel is long past.
LongAgo == -(Window + 1)

VARIABLES
  now,
  recordPushErrStartAt,  \* start of the current window
  recordPushErrCount,
  errs,                  \* times of the errors since the last push that succeeded,
                         \* as <<time, number>>
  loop                   \* scLoop: "runs", or "overload" ended it

windowVars == <<now, recordPushErrStartAt, recordPushErrCount, errs, loop>>

WindowInit ==
  /\ now = 0
  /\ recordPushErrStartAt = LongAgo
  /\ recordPushErrCount = 0
  /\ errs = {}
  /\ loop = "runs"

Elapse ==
  /\ now < MaxTime
  /\ now' = now + 1
  /\ UNCHANGED <<recordPushErrStartAt, recordPushErrCount, errs, loop>>

\* A push succeeds: the count is reset, the window is not.
PushOk ==
  /\ loop = "runs"
  /\ recordPushErrCount' = 0
  /\ errs' = {}
  /\ UNCHANGED <<now, recordPushErrStartAt, loop>>

\* A push fails: recordPushErr.
recordPushErr ==
  /\ loop = "runs"
  /\ LET expired == now - recordPushErrStartAt > Window
         count   == (IF expired THEN 0 ELSE recordPushErrCount) + 1
     IN  /\ recordPushErrStartAt' = IF expired THEN now ELSE recordPushErrStartAt
         /\ recordPushErrCount' = count
         /\ loop' = IF count > Limit THEN "overload" ELSE "runs"
  /\ errs' = errs \cup {<<now, Cardinality(errs)>>}
  /\ UNCHANGED now

WindowNext == Elapse \/ PushOk \/ recordPushErr

WindowSpec == WindowInit /\ [][WindowNext]_windowVars

-----------------------------------------------------------------------------
(***************************************************************************)
(* Properties.                                                              *)
(***************************************************************************)
\* The continuous errors of the last w units of time.
Recent(w) == {e \in errs : now - e[1] <= w}

\* Type invariant.
WindowTypeOK ==
  /\ now \in 0..MaxTime
  /\ recordPushErrStartAt \in {LongAgo} \cup 0..now
  /\ recordPushErrCount \in 0..(Limit + 1)
  /\ errs \subseteq (0..now) \X Nat
  /\ loop \in {"runs", "overload"}

\* A tunnel is given up only for errors that are real, continuous and recent: at
\* the moment of the verdict, more than Limit pushes in a row have failed within
\* the window, and no success came between them.
OverloadIsEarned ==
  [][loop = "runs" /\ loop' = "overload" => Cardinality(Recent(Window)') > Limit]_windowVars

\* A tunnel is given up in the end: with more than 2 * Limit continuous errors in
\* one window's time it cannot go on, wherever the windows begin.
PersistentErrorsEnd == Cardinality(Recent(Window)) > 2 * Limit => loop = "overload"

\* tunnel.go:29, "the count of continuous push error in the last 10 seconds": the
\* tunnel goes on only as long as that count is within the limit.
CountIsOfLastWindow == Cardinality(Recent(Window)) > Limit => loop = "overload"

=============================================================================
