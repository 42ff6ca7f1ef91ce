----------------------------- MODULE Resources ------------------------------
(***************************************************************************)
(* A field of an object of the API, written and read through a helper of   *)
(* proxmoxer/helpers by clients that share a ProxmoxAPI.  One client, the  *)
(* owner, sets the field; the others create and delete the object too, and *)
(* update its other fields.  Fields that their helper treats alike behave  *)
(* alike, so one of each kind is followed.                                 *)
(***************************************************************************)
EXTENDS ProxmoxAPI, AccessFields, StorageFields, SDNFields, CephFields, NotificationFields,
        ClusterFields, FirewallFields, NodeFields

CONSTANT Owner

ASSUME OwnerAssumption == Owner \in Clients

VARIABLES
    field,      \* the field followed
    stored,     \* what the server holds: a value of it, or "absent" when there is no object
    want        \* what the owner set last, and how, as far as it may count on it

fieldVars == <<field, stored, want>>

Families ==
    AccessFamilies \union StorageFamilies \union SDNFamilies \union CephFamilies
    \union NotificationFamilies \union ClusterFamilies \union FirewallFamilies
    \union NodeFamilies

\* The answers of the API, by api_extraction/proxmox_api_complete.json, as far as they
\* are not what the helper expects: keys that an answer leaves out, since the request
\* names them, and forms other than the one it decodes.  A pool of Ceph answers with
\* the list of what can be asked of it.  Answers it says nothing of are taken to be
\* as expected.
LeftOut ==
    [User |-> {"userid"}, Group |-> {"groupid"}, Role |-> {"roleid"}, Pool |-> {"poolid"},
     NetworkInterface |-> {"iface"}, agent_exec_status |-> {"pid"}]

Form ==
    [CephPool |-> "each", list_osds |-> "one", list_lvm |-> "one",
     upload_custom_certificate |-> "one"]

Decodes(f) ==
    /\ RuleOf(Form, f.name, f.form) = f.form
    /\ Needs(f) \intersect RuleOf(LeftOut, f.name, {}) \subseteq f.fills

\* How a helper treats key k of family f; and whose it is, where that is unusual.
\* Of an answer it cannot decode it reads nothing: from_dict raises.
Treatment(f, k) ==
    [kind |-> f.kind,
     add |-> RuleOf(f.add, k, "never"),
     set |-> RuleOf(f.set, k, "never"),
     read |-> LET rule == IF Decodes(f) THEN RuleOf(f.read, k, "unread") ELSE "unread"
              IN  IF Read[rule] = Read["plain"] /\ rule # "unread" THEN "plain"
                  ELSE IF Read[rule] = Read["default"] THEN "default"
                  ELSE rule,
     unset |-> "delete" \in DOMAIN f.set,
     whose |-> IF RuleOf(f.set, k, "never") = "truthy" THEN f.name ELSE "any"]

\* A family without keys has its answer.
Fields ==
    UNION {{[name |-> f.name, key |-> k, rules |-> Treatment(f, k)] :
               k \in IF KeysOf(f) = {} THEN {"answer"} ELSE KeysOf(f)} : f \in Families}

\* One field for each treatment.
Followed == {CHOOSE p \in Fields : p.rules = t : t \in {p.rules : p \in Fields}}

Anything == [op |-> "none", value |-> "none"]

\* Arguments a method takes for a parameter of that rule; two that are true only
\* where one of them may be the default.
Arguments ==
    LET given == IF field.rules.read = "default" THEN Value ELSE Value \ {"v2"}
    IN  [always |-> Truth, unless |-> Truth, given |-> given, truthy |-> given,
         flag |-> {"none", "falsy", "v1"}, inverse |-> {"none", "falsy", "v1"},
         switch |-> {"falsy", "v1"},
         on |-> {"falsy", "v1"}, off |-> {"falsy", "v1"}, never |-> {"none"}]

\* The argument of a client that cares for other fields.
Neutral ==
    [always |-> "v2", unless |-> "v1", given |-> "none", truthy |-> "none", flag |-> "none",
     inverse |-> "none", switch |-> "v1", on |-> "falsy", off |-> "v1", never |-> "none"]

ArgumentsOf(c, rule) == IF c = Owner THEN Arguments[rule] ELSE {Neutral[rule]}

\* What the decoder makes of a stored value, or, for what it does not read, what
\* the server takes it for: the value the rule leaves out.
Decoded(x) ==
    IF field.rules.read # "unread" THEN Read[field.rules.read][x]
    ELSE IF x = "none" /\ field.rules.add \in {"off", "unless"} THEN "v1"
    ELSE x

Alike(x, y) == x = y \/ {x, y} \subseteq {"none", "falsy"}

FieldInit ==
    /\ APIInit
    /\ field \in Followed
    /\ stored = IF field.rules.kind = "object" THEN "absent" ELSE "none"
    /\ want = Anything

-----------------------------------------------------------------------------
(* Calls of the helper *)

CreateField(c) ==
    /\ field.rules.kind # "single"
    /\ \E x \in ArgumentsOf(c, field.rules.add) :
         Request(c, IF field.rules.kind = "object" THEN "create" ELSE "run",
                 [value |-> x, sent |-> Sent[field.rules.add][x]])
    /\ UNCHANGED fieldVars

UpdateField(c) ==
    /\ field.rules.kind \in {"object", "single"}
    /\ \E x \in ArgumentsOf(c, field.rules.set) :
         Request(c, "update", [value |-> x, sent |-> Sent[field.rules.set][x]])
    /\ UNCHANGED fieldVars

\* The update with the name of the field in "delete".
UnsetField(c) ==
    /\ field.rules.unset /\ c = Owner
    /\ Request(c, "update", [value |-> "unset", sent |-> "unset"])
    /\ UNCHANGED fieldVars

DeleteObject(c) ==
    /\ field.rules.kind = "object"
    /\ Request(c, "delete", [value |-> "none", sent |-> "none"])
    /\ UNCHANGED fieldVars

GetObject(c) ==
    /\ c = Owner
    /\ Request(c, "get", [value |-> "none", sent |-> "none"])
    /\ UNCHANGED fieldVars

-----------------------------------------------------------------------------
(* The server *)

Refuses(op) ==
    \/ op = "create" /\ stored # "absent"
    \/ op \in {"update", "delete", "get"} /\ stored = "absent"

\* What it holds after a request with that value.
Held(op, sent) ==
    CASE op \in {"create", "run"}           -> sent
      [] op = "delete"                      -> "absent"
      [] op = "update" /\ sent = "unset"    -> "none"
      [] op = "update" /\ sent \in Value    -> IF sent = "none" THEN stored ELSE sent
      [] OTHER                              -> stored

\* What the owner may count on from then on.  Another client takes it away when it
\* deletes the object, gives the same command, or updates the object by a method that
\* has to be given this field.
TakesAway(c, op) ==
    \/ op = "delete"
    \/ c # Owner /\ op = "run"
    \/ c # Owner /\ op = "update" /\ field.rules.set = "always"

Sets(c, op, value) ==
    /\ c = Owner
    /\ \/ op = "create" /\ field.rules.add # "never"
       \/ op = "run"
       \/ op = "update" /\ value # "none"

Wanted(c, op, value) ==
    IF TakesAway(c, op) THEN Anything
    ELSE IF Sets(c, op, value) THEN [op |-> op, value |-> value]
    ELSE want

Serve(c) ==
    /\ call[c].pc = "sent"
    /\ IF Refuses(call[c].op)
         THEN call' = Answer(c, "error") /\ UNCHANGED fieldVars
         ELSE /\ call' = Answer(c, "ok")
              /\ stored' = Held(call[c].op, call[c].arg.sent)
              /\ want' = Wanted(c, call[c].op, call[c].arg.value)
              /\ field' = field
    /\ UNCHANGED <<apiVars, late>>

\* A request that was given up is served after others that came later: the owner
\* may not count on what it asked since.
ServeLate ==
    /\ late # NotLate
    /\ IF Refuses(late.op)
         THEN UNCHANGED fieldVars
         ELSE /\ stored' = Held(late.op, late.arg.sent)
              /\ want' = IF late.client = Owner THEN Anything
                         ELSE Wanted(late.client, late.op, late.arg.value)
              /\ field' = field
    /\ late' = NotLate
    /\ UNCHANGED <<apiVars, call>>

FieldNext ==
    \/ APINext /\ UNCHANGED fieldVars
    \/ \E c \in Clients :
         \/ CreateField(c) \/ UpdateField(c) \/ UnsetField(c) \/ DeleteObject(c) \/ GetObject(c)
         \/ Serve(c)
         \/ (Lose(c) \/ Refused(c) \/ Returns(c)) /\ UNCHANGED fieldVars
    \/ ServeLate

FieldSpec == FieldInit /\ [][FieldNext]_<<apiVars, requestVars, fieldVars>>

-----------------------------------------------------------------------------
\* What a get of the owner would show it of the field is what it asked for.
Shows == IF want.value = "unset" THEN stored = "none" ELSE Alike(Decoded(stored), want.value)

\* A field that was created with a value, or a command that was given an option,
\* has it: what the method leaves out of the request, because it is falsy or the
\* default, is what the server and from_dict put there.
CreatedAsAsked == want.op \in {"create", "run"} => Shows

\* Helpers with parameters that an update cannot set to something falsy, since it
\* tests them by truth.
NotCleared == {"FirewallAlias", "NetworkInterface"}

\* What the owner changed stays until it changes it again, the object is deleted, or
\* an earlier request of its own comes late, whatever the others update meanwhile and
\* however often a request is repeated: an update sends nothing of the parameters it
\* was not given.
UpdateHolds ==
    want.op = "update" =>
        \/ Shows
        \/ field.rules.set = "truthy" /\ want.value = "falsy" /\ field.name \in NotCleared

=============================================================================
