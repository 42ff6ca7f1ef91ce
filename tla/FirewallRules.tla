---------------------------- MODULE FirewallRules ---------------------------
(***************************************************************************)
(* The rules of a firewall, which FirewallManager of                       *)
(* proxmoxer/helpers/firewall.py addresses by the position they stand at,  *)
(* while requests are repeated and other clients change the list.          *)
(***************************************************************************)
EXTENDS ProxmoxAPI, SequencesExt, FiniteSets

CONSTANTS
    OldRules,       \* the list at first
    NewRules        \* rules to add

\* A rule is itself and no other, wherever it stands.
ASSUME RulesAssumption == OldRules \in Seq(ToSet(OldRules)) /\ IsInjective(OldRules)

VARIABLES
    rules,          \* the list the server holds
    edited,         \* rules whose settings the server has changed
    asked,          \* what the calls so far asked of the list: [rules, edited]
    clean,          \* no two calls at once, and every answer has come
    gone            \* deletions asked for

ruleVars == <<rules, edited, asked, clean, gone>>

RulesInit ==
    /\ APIInit
    /\ rules = OldRules /\ edited = {}
    /\ asked = [rules |-> OldRules, edited |-> {}]
    /\ clean = TRUE
    /\ gone = 0

Alone(c) == \A d \in Clients \ {c} : call[d].pc = "idle"

Positions == 0 .. Len(rules) - 1

MovedTo(list, pos, new) == InsertAt(RemoveAt(list, pos + 1), new + 1, list[pos + 1])

\* FirewallRule.to_dict sends str() of action and type.  Given as members of
\* FirewallRuleAction and FirewallRuleType, as by allow_ssh and its like, these are
\* the names of the members, which are not values of the API.
Text(given) == IF given = "member" THEN "FirewallRuleAction.ACCEPT" ELSE "ACCEPT"

-----------------------------------------------------------------------------
(* Calls: the client has read the list, and then sends a position in it *)

RuleRequest(c, op, arg, list, changed) ==
    /\ Request(c, op, arg)
    /\ clean' = (clean /\ Alone(c))
    /\ asked' = [rules |-> list, edited |-> changed]
    /\ gone' = IF op = "delete" THEN gone + 1 ELSE gone
    /\ UNCHANGED <<rules, edited>>

AddRule(c, given) ==
    \E r \in NewRules \ ToSet(asked.rules) :
        RuleRequest(c, "add", [rule |-> r, action |-> Text(given)],
            IF given = "text" THEN <<r>> \o asked.rules ELSE asked.rules, asked.edited \ {r})

UpdateRule(c, given) ==
    \E pos \in Positions :
        RuleRequest(c, "update", [pos |-> pos, action |-> Text(given)], asked.rules,
            IF given = "text" THEN asked.edited \union {rules[pos + 1]} ELSE asked.edited)

MoveRule(c) ==
    \E pos, new \in Positions :
        RuleRequest(c, "move", [pos |-> pos, new |-> new],
            LET rest == RemoveFirst(asked.rules, rules[pos + 1])
            IN  IF new <= Len(rest) THEN InsertAt(rest, new + 1, rules[pos + 1]) ELSE asked.rules,
            asked.edited)

\* mutant: positions are counted from one
DeleteRuleFromOne(c) ==
    \E pos \in Positions :
        RuleRequest(c, "delete", [pos |-> pos + 1], RemoveFirst(asked.rules, rules[pos + 1]),
            asked.edited \ {rules[pos + 1]})

DeleteRule(c) ==
    \E pos \in Positions :
        RuleRequest(c, "delete", [pos |-> pos], RemoveFirst(asked.rules, rules[pos + 1]),
            asked.edited \ {rules[pos + 1]})

-----------------------------------------------------------------------------
(* The server: a new rule stands first *)

NotThere(op, arg) ==
    \/ op \in {"update", "move", "delete"} /\ arg.pos \notin Positions
    \/ op = "move" /\ arg.new \notin Positions
    \/ op \in {"add", "update"} /\ arg.action \notin {"ACCEPT", "REJECT", "DROP"}

Changed(op, arg) ==
    /\ rules' = CASE op = "add"    -> <<arg.rule>> \o rules
                  [] op = "move"   -> MovedTo(rules, arg.pos, arg.new)
                  [] op = "delete" -> RemoveAt(rules, arg.pos + 1)
                  [] OTHER         -> rules
    /\ edited' = CASE op = "update" -> edited \union {rules[arg.pos + 1]}
                   [] op = "delete" -> edited \ {rules[arg.pos + 1]}
                   [] op = "add"    -> edited \ {arg.rule}
                   [] OTHER         -> edited
    /\ UNCHANGED <<asked, clean, gone>>

ServeRule(c) ==
    /\ call[c].pc = "sent"
    /\ IF NotThere(call[c].op, call[c].arg)
         THEN call' = Answer(c, "error") /\ UNCHANGED ruleVars
         ELSE call' = Answer(c, "ok") /\ Changed(call[c].op, call[c].arg)
    /\ UNCHANGED <<apiVars, late>>

ServeRuleLate ==
    /\ late # NotLate
    /\ IF NotThere(late.op, late.arg) THEN UNCHANGED ruleVars ELSE Changed(late.op, late.arg)
    /\ late' = NotLate
    /\ UNCHANGED <<apiVars, call>>

LoseRule(c) ==
    /\ Lose(c)
    /\ clean' = FALSE
    /\ UNCHANGED <<rules, edited, asked, gone>>

RulesNext ==
    \/ APINext /\ UNCHANGED ruleVars
    \/ \E c \in Clients :
         \/ \E given \in {"text", "member"} : AddRule(c, given) \/ UpdateRule(c, given)
         \/ MoveRule(c) \/ DeleteRule(c)
         \/ ServeRule(c) \/ LoseRule(c)
         \/ (Refused(c) \/ Returns(c)) /\ UNCHANGED ruleVars
    \/ ServeRuleLate

RulesSpec == RulesInit /\ [][RulesNext]_<<apiVars, requestVars, ruleVars>>

-----------------------------------------------------------------------------
\* As long as calls do not overlap and no answer is lost, the list holds, between
\* calls, what they asked for, rule by rule: the positions they send are those of the
\* rules they mean.
ListAsAsked ==
    clean /\ (\A c \in Clients : call[c].pc = "idle") =>
        rules = asked.rules /\ edited = asked.edited

=============================================================================
