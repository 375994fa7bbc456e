----------------------------- MODULE RefreshPolicy -----------------------------
(***************************************************************************)
(* RefreshPolicy.Plan of internal/codex/quota: from a source's schedule    *)
(* row and its last recorded outcome, when the next request is due, why,   *)
(* and whether to send it now.                                             *)
(*                                                                         *)
(* Time is what is left of it: a due, retry or manual timestamp t is       *)
(* modelled by max(t - now, 0) in units of the manual gap, None where the  *)
(* code has a nil pointer.  "t <= now" is 0.  Cadence and backoff lengths  *)
(* depend on percentages, reset times, failure counts and jitter; here     *)
(* they are any member of a set.                                           *)
(***************************************************************************)
EXTENDS Integers, FiniteSetsExt

CONSTANTS
    Cadence,    \* the ordinary intervals between two requests
    Backoff     \* the delays after a failure

ASSUME PolicyAssumption ==
    /\ Cadence \subseteq Nat \ {0}
    /\ Backoff \subseteq Nat \ {0}
    /\ Cadence # {} /\ Backoff # {}

None == -99

(* Reasons the code tells apart.  "plain" stands for startup, recovery,    *)
(* foreground, wake_stale, cancelled and the cadence reasons.              *)
PausedReasons == {"schema", "disabled", "inactive"}
Reasons == PausedReasons \cup {"plain", "manual", "backoff", "retry_after"}

(* A row without a claim and the state of a source never asked.            *)
NoRow == [gen |-> 0, due |-> None, reason |-> "absent",
          claim |-> "none", lease |-> 0, rec |-> FALSE, manual |-> None]

Untried == [fail |-> "untried", retry |-> None]

Exists(row) == row.reason # "absent"

(* validateSourceRefreshDecision: paused if and only if there is no due.   *)
Valid(d) == (d.reason \in PausedReasons) <=> (d.due = None)

Immediate(reason) == [due |-> 0, reason |-> reason, fetch |-> TRUE]

Scheduled(due, reason) == [due |-> due, reason |-> reason, fetch |-> FALSE]

(* Without a row the code preserves "normal_interval" with a nil due.      *)
Preserved(row) ==
    IF Exists(row) THEN Scheduled(row.due, row.reason)
                   ELSE Scheduled(None, "plain")

-------------------------------------------------------------------------------
(* Times before which a 429 forbids a request: the row's own and the one   *)
(* the last response named.                                                *)
RetryTimes(row, st) ==
    {t \in {row.due} : row.reason = "retry_after" /\ t > 0}
        \cup {t \in {st.retry} : st.fail = "http_429" /\ t > 0}

RetryFenced(row, st) == RetryTimes(row, st) # {}

RetryAfter(row, st) ==
    LET fence == Max(RetryTimes(row, st))
    IN  IF row.due >= fence THEN Preserved(row)
                            ELSE Scheduled(fence, "retry_after")

Waits(row) == row.reason \in {"backoff", "retry_after"} /\ row.due # None

PausesAutomatic(row) == row.reason = "disabled" \/ (Waits(row) /\ row.due > 0)

(* nextDecision: what follows the last recorded outcome.                   *)
NextDecisions(st) ==
    CASE st.fail \in {"network", "auth"} ->
            {Scheduled(b, "backoff") : b \in Backoff}
      [] st.fail = "http_429" ->
            {IF st.retry > b THEN Scheduled(st.retry, "retry_after")
                             ELSE Scheduled(b, "backoff") : b \in Backoff}
      [] st.fail = "schema" -> {Scheduled(None, "schema")}
      [] OTHER -> {Scheduled(c, "plain") : c \in Cadence}

(* Startup and recovery keep an earlier due of the row, and a failure's    *)
(* wait across a restart.                                                  *)
RestartDecisions(trigger, row, st) ==
    LET base == IF RetryFenced(row, st) THEN {RetryAfter(row, st)}
                ELSE IF Waits(row) THEN {Preserved(row)}
                ELSE {IF row.due # None /\ d.due # None /\ row.due < d.due
                            /\ ~PausesAutomatic(row)
                      THEN Preserved(row) ELSE d : d \in NextDecisions(st)}
        late(d) == [d EXCEPT !.fetch = TRUE,
                             !.reason = IF trigger = "recovery" THEN "plain"
                                                                ELSE @]
    IN  {IF d.due = 0 THEN late(d) ELSE d : d \in base}

(* A request the policy may refuse: unless a 429 fences the source or the  *)
(* trigger's own condition holds the request back, send it now.            *)
AskedPlan(row, st, held, reason) ==
    IF RetryFenced(row, st) THEN RetryAfter(row, st)
    ELSE IF held THEN Preserved(row)
    ELSE Immediate(reason)

(* The branches of Plan's switch on the trigger.  young: the last success  *)
(* is less than a minute old; stale: the source's freshness is stale.      *)
TriggerPlans(trigger, row, st, young, stale) ==
    CASE trigger = "manual" ->
            {IF row.manual > 0 THEN Preserved(row)
                               ELSE AskedPlan(row, st, FALSE, "manual")}
      [] trigger = "foreground" ->
            {AskedPlan(row, st, PausesAutomatic(row) \/ young, "plain")}
      [] trigger = "wake" ->
            {AskedPlan(row, st, PausesAutomatic(row) \/ ~stale, "plain")}
      [] trigger \in {"startup", "recovery"} ->
            IF st = Untried
               \/ (trigger = "startup" /\ st.fail \in {"auth", "schema"})
            THEN {Immediate("plain")}
            ELSE RestartDecisions(trigger, row, st)
      [] trigger = "scheduled" -> NextDecisions(st)

(* Plan.  changed: the row was written under another binding generation.   *)
Plan(trigger, enabled, changed, row, st, young, stale) ==
    IF ~enabled THEN {Scheduled(None, "disabled")}
    ELSE IF row.claim # "none" /\ trigger # "scheduled" THEN {Preserved(row)}
    ELSE IF changed THEN {AskedPlan(row, st, FALSE, "plain")}
    ELSE TriggerPlans(trigger, row, st, young, stale)

================================================================================
