---------------------------- MODULE MCResources ----------------------------
(* The helpers that set fields and the one that edits a list of rules, over the *)
(* same requests.                                                             *)
EXTENDS Resources, FirewallRules

MCOldRules == <<"r1", "r2">>

VARIABLE part       \* which of them is followed

vars == <<apiVars, requestVars, fieldVars, ruleVars, part>>

MCInit ==
    \/ /\ part = "fields"
       /\ FieldInit
       /\ rules = <<>> /\ edited = {} /\ asked = [rules |-> <<>>, edited |-> {}]
       /\ clean = TRUE /\ gone = 0
    \/ /\ part = "rules"
       /\ RulesInit
       /\ field = (CHOOSE p \in Followed : p.rules.kind = "object")
       /\ stored = "none" /\ want = Anything

MCNext ==
    \/ part = "fields" /\ FieldNext /\ UNCHANGED <<ruleVars, part>>
    \/ part = "rules" /\ RulesNext /\ UNCHANGED <<fieldVars, part>>

MCSpec == MCInit /\ [][MCNext]_vars

\* close() is the same for every field, and the local session treats a request like the
\* SSH one: both are followed for commands without options.
CloseBound ==
    closed \/ backend = "local" =>
        part = "fields" /\ field.rules.kind = "command" /\ field.rules.add = "never"

\* Over SSH an answer that is an error is repeated, whatever the rule of the field: it
\* is followed for the fields a create always sends, and for commands without options.
BackendBound ==
    backend = "ssh" /\ part = "fields" =>
        field.rules.add = "always" \/ (field.rules.kind = "command" /\ field.rules.add = "never")

\* Of those who set fields, only the owner repeats its requests.
AttemptsBound == part = "fields" => \A c \in Clients \ {Owner} : call[c].attempt <= 1

\* One deletion.  Once an answer is lost, only as far as the request it belonged to
\* may be served late.
RulesBound ==
    part = "rules" =>
        gone <= 1 /\ (clean \/ (late # NotLate /\ \A c \in Clients : call[c].pc = "idle"))

Bounds == CloseBound /\ BackendBound /\ AttemptsBound /\ RulesBound

=============================================================================
