------------------------------ MODULE Outcome ------------------------------
(***************************************************************************)
(* What apply reports (apply.go:400-570): the status of every endpoint from *)
(* one snapshot, and the exit class from the statuses and the results.      *)
(***************************************************************************)
EXTENDS Planning

CONSTANT NameOf   \* NameOf[c]: a container's name, reused by a replacement

ASSUME OutcomeAssumption == DOMAIN NameOf = Containers

ActionResults == {"not_attempted", "identity_changed", "signal_sent", "stopped",
                  "permission_denied", "timeout_unknown", "failed"}

Statuses == {"free", "blocked_by_original", "blocked_by_new_owner",
             "blocked_by_refused_owner", "not_verifiable"}
-----------------------------------------------------------------------------
(* classify: one flag per occupant.  result[k] is the outcome of resource k. *)

PlannedOn(plan, k, port) == k \in plan.resources /\ port \in plan.ports[k]

\* Mutant of OwnerFlag: the PID alone makes it the original.
OwnerFlag_PIDOnly(plan, s, port, p) ==
    IF p \in plan.refusedPID[port] THEN "refused"
    ELSE IF Infra(s, p) /\ Explained(s, port) THEN "judged_by_container"
    ELSE IF s.ident[p] # "ok" THEN "unknown"
    ELSE IF PlannedOn(plan, p, port) THEN "original"
    ELSE "other"

OwnerFlag(plan, s, port, p) ==
    IF p \in plan.refusedPID[port] THEN "refused"
    ELSE IF Infra(s, p) /\ Explained(s, port) THEN "judged_by_container"
    ELSE IF (Infra(s, p) /\ s.dockerErr) \/ s.ident[p] # "ok" THEN "unknown"
    ELSE IF PlannedOn(plan, p, port) /\ plan.start[p] = s.start[p] THEN "original"
    ELSE "other"

RefusedName(plan, port, c) ==
    \E d \in plan.refusedContainer[port] : NameOf[d] = NameOf[c]

ContainerFlag(plan, result, port, c) ==
    IF RefusedName(plan, port, c) /\ ~PlannedOn(plan, c, port) THEN "refused"
    ELSE IF ~PlannedOn(plan, c, port) THEN "other"
    ELSE IF result[c] = "timeout_unknown" THEN "unknown"
    ELSE "original"

\* Mutant of Flags: what the plan could not see is taken to be there still.
Flags_StillHidden(plan, result, s, port) ==
    {OwnerFlag(plan, s, port, p) : p \in Owners(s, port)}
    \cup {ContainerFlag(plan, result, port, c) : c \in Publishers(s, port)}
    \cup (IF port \in plan.refusedHidden THEN {"refused"} ELSE {})

Flags(plan, result, s, port) ==
    {OwnerFlag(plan, s, port, p) : p \in Owners(s, port)}
    \cup {ContainerFlag(plan, result, port, c) : c \in Publishers(s, port)}
    \cup (IF HiddenOwner(s, port) /\ port \in plan.refusedHidden
          THEN {"refused"} ELSE {})

Status(plan, result, s, port) ==
    LET flags == Flags(plan, result, s, port)
    IN  IF "original" \in flags THEN "blocked_by_original"
        ELSE IF "refused" \in flags THEN "blocked_by_refused_owner"
        ELSE IF "other" \in flags THEN "blocked_by_new_owner"
        ELSE IF "unknown" \in flags \/ Visibility(s, port) # "complete"
        THEN "not_verifiable"
        ELSE IF ~Occupied(s, port) THEN "free"
        ELSE "blocked_by_new_owner"

Classify(plan, result, s) == [port \in Ports |-> Status(plan, result, s, port)]

AllFree(status) == \A port \in Ports : status[port] = "free"
-----------------------------------------------------------------------------
(* applyClass *)

ResultClass(r) ==
    CASE r \in {"failed", "permission_denied"} -> {"failed"}
      [] r = "timeout_unknown" -> {"uncertain"}
      [] r = "identity_changed" -> {"needs_fresh_plan"}
      [] OTHER -> {}

\* Mutant of StatusClass: an endpoint that is still blocked is not a failure.
StatusClass_Freed(status) ==
    CASE status = "not_verifiable" -> {"uncertain"}
      [] status = "blocked_by_new_owner" -> {"needs_fresh_plan"}
      [] OTHER -> {}

StatusClass(status) ==
    CASE status \in {"blocked_by_original", "blocked_by_refused_owner"} -> {"failed"}
      [] status = "not_verifiable" -> {"uncertain"}
      [] status = "blocked_by_new_owner" -> {"needs_fresh_plan"}
      [] OTHER -> {}

ResultClasses(plan, result) == UNION {ResultClass(result[k]) : k \in plan.resources}

StatusClasses(status) == UNION {StatusClass(status[port]) : port \in Ports}

VisibilityClasses(s) ==
    IF \E port \in Ports : Visibility(s, port) # "complete" THEN {"uncertain"} ELSE {}

ApplyClass(plan, result, status, s) ==
    WorstOf(ResultClasses(plan, result) \cup StatusClasses(status) \cup VisibilityClasses(s))
=============================================================================
