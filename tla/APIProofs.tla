----------------------------- MODULE APIProofs -----------------------------
(***************************************************************************)
(* Proofs about what clients do through one ProxmoxAPI: the list of        *)
(* firewall rules (FirewallRules) and the fields of objects (Resources),   *)
(* for every set of clients and number of attempts.                        *)
(***************************************************************************)
EXTENDS Resources, FirewallRules, SequenceTheorems, TLAPS

-----------------------------------------------------------------------------
(* Lists without repetitions *)

\* What RemoveAt makes of a list.
LEMMA RemoveAtIs ==
  ASSUME NEW S, NEW s \in Seq(S), NEW i \in 1..Len(s)
  PROVE  /\ RemoveAt(s, i) \in Seq(S)
         /\ Len(RemoveAt(s, i)) = Len(s) - 1
         /\ \A j \in 1..(Len(s) - 1) :
              RemoveAt(s, i)[j] = IF j < i THEN s[j] ELSE s[j + 1]
<1> DEFINE a == SubSeq(s, 1, i - 1)
           b == SubSeq(s, i + 1, Len(s))
<1>1. a \in Seq(S) /\ Len(a) = i - 1 /\ \A j \in 1..(i - 1) : a[j] = s[j]
  BY SubSeqProperties
<1>2. /\ b \in Seq(S) /\ Len(b) = Len(s) - i
      /\ \A j \in 1..(Len(s) - i) : b[j] = s[i + j]
  BY SubSeqProperties
<1>3. RemoveAt(s, i) = a \o b
  BY DEF RemoveAt
<1> HIDE DEF a, b
<1>4. a \o b \in Seq(S) /\ Len(a \o b) = Len(s) - 1
  <2>1. (i - 1) + (Len(s) - i) = Len(s) - 1
    OBVIOUS
  <2>2. a \o b \in Seq(S) /\ Len(a \o b) = Len(a) + Len(b)
    BY <1>1, <1>2, ConcatProperties
  <2> QED
    BY <1>1, <1>2, <2>1, <2>2
<1>5. ASSUME NEW j \in 1..(Len(s) - 1)
      PROVE  (a \o b)[j] = IF j < i THEN s[j] ELSE s[j + 1]
  <2>1. (a \o b)[j] = IF j <= Len(a) THEN a[j] ELSE b[j - Len(a)]
    <3>1. \A k \in 1..(Len(a) + Len(b)) :
            (a \o b)[k] = IF k <= Len(a) THEN a[k] ELSE b[k - Len(a)]
      BY <1>1, <1>2, ConcatProperties
    <3>2. j \in 1..(Len(a) + Len(b))
      BY <1>1, <1>2
    <3> QED
      BY <3>1, <3>2
  <2>2. CASE j < i
    BY <1>1, <2>1, <2>2
  <2>3. CASE j >= i
    <3>1. j - (i - 1) \in 1..(Len(s) - i) /\ i + (j - (i - 1)) = j + 1 /\ ~(j <= i - 1)
      BY <2>3
    <3>2. b[j - (i - 1)] = s[j + 1]
      BY <1>2, <3>1
    <3> QED
      BY <1>1, <2>1, <2>3, <3>1, <3>2
  <2>4. j < i \/ j >= i
    OBVIOUS
  <2> QED
    BY <2>2, <2>3, <2>4, Zenon
<1> QED
  BY <1>3, <1>4, <1>5

\* What InsertAt makes of a list.
LEMMA InsertAtIs ==
  ASSUME NEW S, NEW s \in Seq(S), NEW i \in 1..(Len(s) + 1), NEW e \in S
  PROVE  /\ InsertAt(s, i, e) \in Seq(S)
         /\ Len(InsertAt(s, i, e)) = Len(s) + 1
         /\ \A j \in 1..(Len(s) + 1) :
              InsertAt(s, i, e)[j] = IF j < i THEN s[j] ELSE IF j = i THEN e ELSE s[j - 1]
<1> DEFINE a == SubSeq(s, 1, i - 1)
           b == SubSeq(s, i, Len(s))
           m == <<e>>
<1>1. a \in Seq(S) /\ Len(a) = i - 1 /\ \A j \in 1..(i - 1) : a[j] = s[j]
  BY SubSeqProperties
<1>2. /\ b \in Seq(S) /\ Len(b) = Len(s) - i + 1
      /\ \A j \in 1..(Len(s) - i + 1) : b[j] = s[i + j - 1]
  BY SubSeqProperties
<1>3. m \in Seq(S) /\ Len(m) = 1 /\ m[1] = e
  OBVIOUS
<1>4. InsertAt(s, i, e) = (a \o m) \o b
  BY DEF InsertAt
<1> HIDE DEF a, b, m
<1>5. /\ a \o m \in Seq(S)
      /\ Len(a \o m) = i
      /\ \A j \in 1..i : (a \o m)[j] = IF j <= i - 1 THEN a[j] ELSE m[j - (i - 1)]
  <2>1. (i - 1) + 1 = i
    OBVIOUS
  <2>2. /\ a \o m \in Seq(S)
        /\ Len(a \o m) = Len(a) + Len(m)
        /\ \A j \in 1..(Len(a) + Len(m)) :
             (a \o m)[j] = IF j <= Len(a) THEN a[j] ELSE m[j - Len(a)]
    BY <1>1, <1>3, ConcatProperties
  <2> QED
    BY <1>1, <1>3, <2>1, <2>2
<1>6. \A j \in 1..i : (a \o m)[j] = IF j < i THEN s[j] ELSE e
  BY <1>1, <1>3, <1>5
<1>7. /\ (a \o m) \o b \in Seq(S)
      /\ Len((a \o m) \o b) = Len(s) + 1
      /\ \A j \in 1..(Len(s) + 1) :
           ((a \o m) \o b)[j] = IF j <= i THEN (a \o m)[j] ELSE b[j - i]
  BY <1>2, <1>5, ConcatProperties
<1>8. ASSUME NEW j \in (i + 1)..(Len(s) + 1) PROVE b[j - i] = s[j - 1]
  <2>1. j - i \in 1..(Len(s) - i + 1) /\ i + (j - i) - 1 = j - 1
    OBVIOUS
  <2> QED
    BY <1>2, <2>1
<1>9. ASSUME NEW j \in 1..(Len(s) + 1)
      PROVE  ((a \o m) \o b)[j] = IF j < i THEN s[j] ELSE IF j = i THEN e ELSE s[j - 1]
  <2>1. CASE j <= i
    <3>1. j \in 1..i
      BY <2>1
    <3>2. ((a \o m) \o b)[j] = (a \o m)[j]
      BY <1>7, <2>1
    <3>3. (a \o m)[j] = IF j < i THEN s[j] ELSE e
      BY <1>6, <3>1
    <3> QED
      BY <2>1, <3>2, <3>3
  <2>2. CASE j > i
    BY <1>7, <1>8, <2>2
  <2>3. j <= i \/ j > i
    OBVIOUS
  <2> QED
    BY <2>1, <2>2, <2>3
<1> QED
  BY <1>4, <1>7, <1>9

\* In a list without repetitions, to remove an element is to remove what stands at
\* its place.
LEMMA RemoveFirstIs ==
  ASSUME NEW S, NEW s \in Seq(S), IsInjective(s), NEW i \in 1..Len(s)
  PROVE  RemoveFirst(s, s[i]) = RemoveAt(s, i)
<1> DEFINE places == {j \in 1..Len(s) : s[j] = s[i]}
<1>1. places = {i}
  BY DEF IsInjective
<1>2. Min(places) = i
  BY <1>1 DEF Min
<1>3. SelectInSeq(s, LAMBDA v : v = s[i]) = IF places # {} THEN Min(places) ELSE 0
  BY DEF SelectInSeq
<1>4. RemoveFirst(s, s[i]) = RemoveAt(s, SelectInSeq(s, LAMBDA v : v = s[i]))
  BY DEF RemoveFirst
<1> QED
  BY <1>1, <1>2, <1>3, <1>4

\* What is left after a removal has no repetitions, and lost that element only.
LEMMA RemovedOne ==
  ASSUME NEW S, NEW s \in Seq(S), IsInjective(s), NEW i \in 1..Len(s)
  PROVE  /\ RemoveAt(s, i) \in Seq(S) /\ IsInjective(RemoveAt(s, i))
         /\ ToSet(RemoveAt(s, i)) = ToSet(s) \ {s[i]}
<1> DEFINE t == RemoveAt(s, i)
<1>1. /\ t \in Seq(S) /\ Len(t) = Len(s) - 1
      /\ \A j \in 1..(Len(s) - 1) : t[j] = IF j < i THEN s[j] ELSE s[j + 1]
  BY RemoveAtIs
<1> HIDE DEF t
<1>2. DOMAIN t = 1..(Len(s) - 1) /\ DOMAIN s = 1..Len(s)
  BY <1>1
<1>3. IsInjective(t)
  <2> SUFFICES ASSUME NEW j \in 1..(Len(s) - 1), NEW k \in 1..(Len(s) - 1), t[j] = t[k]
               PROVE  j = k
    BY <1>2 DEF IsInjective
  <2> DEFINE from(n) == IF n < i THEN n ELSE n + 1
  <2>1. \A n \in 1..(Len(s) - 1) : from(n) \in 1..Len(s) /\ t[n] = s[from(n)]
    BY <1>1
  <2>2. from(j) = from(k)
    BY <1>2, <2>1 DEF IsInjective
  <2> QED
    BY <2>2
<1>4. ToSet(t) = ToSet(s) \ {s[i]}
  <2>1. ASSUME NEW j \in 1..(Len(s) - 1) PROVE t[j] \in ToSet(s) \ {s[i]}
    BY <1>1, <1>2 DEF ToSet, IsInjective
  <2>2. ASSUME NEW j \in 1..Len(s), s[j] # s[i] PROVE s[j] \in ToSet(t)
    <3>1. CASE j < i
      BY <1>1, <1>2, <3>1 DEF ToSet
    <3>2. CASE j > i
      <4>1. j - 1 \in 1..(Len(s) - 1) /\ ~(j - 1 < i) /\ (j - 1) + 1 = j
        BY <3>2
      <4>2. t[j - 1] = s[j]
        BY <1>1, <4>1
      <4> QED
        BY <1>2, <4>1, <4>2 DEF ToSet
    <3> QED
      BY <2>2, <3>1, <3>2
  <2> QED
    BY <1>2, <2>1, <2>2 DEF ToSet
<1> QED
  BY <1>1, <1>3, <1>4 DEF t

\* An element that is inserted where there was none like it.
LEMMA InsertedOne ==
  ASSUME NEW S, NEW s \in Seq(S), IsInjective(s), NEW i \in 1..(Len(s) + 1),
         NEW e \in S, e \notin ToSet(s)
  PROVE  /\ InsertAt(s, i, e) \in Seq(S) /\ IsInjective(InsertAt(s, i, e))
         /\ ToSet(InsertAt(s, i, e)) = ToSet(s) \union {e}
<1> DEFINE t == InsertAt(s, i, e)
<1>1. /\ t \in Seq(S) /\ Len(t) = Len(s) + 1
      /\ \A j \in 1..(Len(s) + 1) :
           t[j] = IF j < i THEN s[j] ELSE IF j = i THEN e ELSE s[j - 1]
  BY InsertAtIs, SMTT(30)
<1> HIDE DEF t
<1>2. DOMAIN t = 1..(Len(s) + 1) /\ DOMAIN s = 1..Len(s)
  BY <1>1
<1>3. \A j \in 1..Len(s) : s[j] # e
  BY <1>2 DEF ToSet
<1>4. IsInjective(t)
  <2> SUFFICES ASSUME NEW j \in 1..(Len(s) + 1), NEW k \in 1..(Len(s) + 1), t[j] = t[k]
               PROVE  j = k
    BY <1>2 DEF IsInjective
  <2>1. CASE j = i \/ k = i
    BY <1>1, <1>3, <2>1
  <2>2. CASE j # i /\ k # i
    <3> DEFINE from(n) == IF n < i THEN n ELSE n - 1
    <3>1. \A n \in 1..(Len(s) + 1) : n # i => from(n) \in 1..Len(s) /\ t[n] = s[from(n)]
      BY <1>1
    <3>2. from(j) = from(k)
      BY <1>2, <2>2, <3>1 DEF IsInjective
    <3> QED
      BY <2>2, <3>2
  <2> QED
    BY <2>1, <2>2
<1>5. ToSet(t) = ToSet(s) \union {e}
  <2>1. ASSUME NEW j \in 1..(Len(s) + 1) PROVE t[j] \in ToSet(s) \union {e}
    BY <1>1, <1>2 DEF ToSet
  <2>2. ASSUME NEW j \in 1..Len(s) PROVE s[j] \in ToSet(t)
    <3>1. CASE j < i
      BY <1>1, <1>2, <3>1 DEF ToSet
    <3>2. CASE j >= i
      <4>1. j + 1 \in 1..(Len(s) + 1) /\ j + 1 > i /\ (j + 1) - 1 = j
        BY <3>2
      <4>2. t[j + 1] = s[j]
        BY <1>1, <4>1
      <4> QED
        BY <1>2, <4>1, <4>2 DEF ToSet
    <3> QED
      BY <3>1, <3>2
  <2>3. t[i] = e
    BY <1>1
  <2> QED
    BY <1>2, <2>1, <2>2, <2>3 DEF ToSet
<1> QED
  BY <1>1, <1>4, <1>5 DEF t

-----------------------------------------------------------------------------
(* The list of rules *)

AllRules == ToSet(OldRules) \union NewRules

Same == rules = asked.rules /\ edited = asked.edited

\* What the server holds after a request it does not refuse.
RulesThen(op, arg) ==
    CASE op = "add"    -> <<arg.rule>> \o rules
      [] op = "move"   -> MovedTo(rules, arg.pos, arg.new)
      [] op = "delete" -> RemoveAt(rules, arg.pos + 1)
      [] OTHER         -> rules

EditedThen(op, arg) ==
    CASE op = "update" -> edited \union {rules[arg.pos + 1]}
      [] op = "delete" -> edited \ {rules[arg.pos + 1]}
      [] op = "add"    -> edited \ {arg.rule}
      [] OTHER         -> edited

\* The request under way leads to what was asked.
Leads(op, arg) ==
    IF NotThere(op, arg) THEN Same
    ELSE asked.rules = RulesThen(op, arg) /\ asked.edited = EditedThen(op, arg)

CallTypes ==
    /\ DOMAIN call = Clients
    /\ \A c \in Clients :
         /\ call[c].pc \in {"idle", "sent", "answered"}
         /\ DOMAIN call[c] = {"pc", "op", "arg", "attempt", "answer"}

\* A list of rules is one without repetitions, and what is edited is in it.
RuleList(list, changed) ==
    /\ list \in Seq(AllRules) /\ IsInjective(list)
    /\ changed \subseteq ToSet(list)

\* With one call at a time and every answer: a request that was sent leads to what
\* was asked, one that was answered has led there, and is refused again if it is sent
\* again after it was refused.
CleanInv ==
    /\ late = NotLate
    /\ RuleList(asked.rules, asked.edited)
    /\ \A c, d \in Clients : call[c].pc # "idle" /\ call[d].pc # "idle" => c = d
    /\ (\A c \in Clients : call[c].pc = "idle") => Same
    /\ \A c \in Clients : call[c].pc = "sent" => Leads(call[c].op, call[c].arg)
    /\ \A c \in Clients :
         call[c].pc = "answered" =>
             Same /\ (call[c].answer = "ok" \/ NotThere(call[c].op, call[c].arg))

ListInv == CallTypes /\ (clean => CleanInv)

\* The list is what it was at first.
LEMMA RulesStart == RulesInit => ListInv
<1> SUFFICES ASSUME RulesInit PROVE ListInv
  OBVIOUS
<1>1. CallTypes
  BY DEF RulesInit, APIInit, CallTypes, NoCall
<1>2. OldRules \in Seq(AllRules)
  BY RulesAssumption, ElementOfSeq, SeqMonotonic DEF AllRules
<1>3. RuleList(asked.rules, asked.edited) /\ Same
  BY <1>2, RulesAssumption DEF RulesInit, RuleList, Same
<1>4. CleanInv
  BY <1>3 DEF RulesInit, APIInit, CleanInv, NoCall
<1> QED
  BY <1>1, <1>4 DEF ListInv

\* A request is sent that leads to what it asks, or it is not the only one.
LEMMA Asking ==
  ASSUME ListInv, NEW c \in Clients, NEW op, NEW arg, NEW list, NEW changed,
         RuleRequest(c, op, arg, list, changed),
         RuleList(rules, edited) /\ Same =>
             /\ RuleList(list, changed)
             /\ IF NotThere(op, arg) THEN list = rules /\ changed = edited
                ELSE list = RulesThen(op, arg) /\ changed = EditedThen(op, arg)
  PROVE  ListInv'
<1> USE DEF RuleRequest, Request
<1>1. /\ DOMAIN call' = Clients /\ \A d \in Clients \ {c} : call'[d] = call[d]
      /\ call'[c] = [pc |-> "sent", op |-> op, arg |-> arg, attempt |-> 1, answer |-> "none"]
  BY DEF ListInv, CallTypes
<1>2. CallTypes'
  BY <1>1 DEF ListInv, CallTypes
<1>3. ASSUME clean' PROVE CleanInv'
  <2>1. clean /\ \A d \in Clients : call[d].pc = "idle"
    BY <1>3 DEF Alone
  <2>2. RuleList(rules, edited) /\ Same /\ late' = NotLate
    BY <2>1 DEF ListInv, CleanInv, Same
  <2>3. asked'.rules = list /\ asked'.edited = changed
    OBVIOUS
  <2>4. RuleList(asked'.rules, asked'.edited)
    BY <2>2, <2>3
  <2>5. Leads(op, arg)'
    BY <2>2, <2>3 DEF Leads, Same, NotThere, Positions, RulesThen, EditedThen
  <2>6. \A d \in Clients : call'[d].pc # "idle" => d = c
    BY <1>1, <2>1
  <2>7. call'[c].pc = "sent" /\ call'[c].op = op /\ call'[c].arg = arg
    BY <1>1
  <2> QED
    BY <2>2, <2>4, <2>5, <2>6, <2>7 DEF CleanInv, RuleList
<1> QED
  BY <1>2, <1>3 DEF ListInv

\* The elements of a list of rules.
LEMMA RuleAt ==
  ASSUME RuleList(rules, edited), NEW pos \in Positions
  PROVE  /\ pos + 1 \in 1..Len(rules)
         /\ rules[pos + 1] \in AllRules /\ rules[pos + 1] \in ToSet(rules)
  BY DEF RuleList, Positions, ToSet

\* A rule is asked for at the front, where the server puts it, if it takes it.
LEMMA Adding ==
  ASSUME ListInv, NEW c \in Clients, NEW given \in {"text", "member"}, AddRule(c, given)
  PROVE  ListInv'
<1> PICK r \in NewRules \ ToSet(asked.rules) :
           RuleRequest(c, "add", [rule |-> r, action |-> Text(given)],
             IF given = "text" THEN <<r>> \o asked.rules ELSE asked.rules, asked.edited \ {r})
  BY DEF AddRule
<1> DEFINE arg == [rule |-> r, action |-> Text(given)]
           list == IF given = "text" THEN <<r>> \o asked.rules ELSE asked.rules
           changed == asked.edited \ {r}
<1> SUFFICES ASSUME RuleList(rules, edited), Same
             PROVE  /\ RuleList(list, changed)
                    /\ IF NotThere("add", arg) THEN list = rules /\ changed = edited
                       ELSE list = RulesThen("add", arg) /\ changed = EditedThen("add", arg)
  BY Asking
<1>1. NotThere("add", arg) <=> given # "text"
  BY DEF NotThere, Text
<1>2. r \in AllRules /\ r \notin ToSet(rules) /\ r \notin edited
  BY DEF AllRules, Same, RuleList
<1>3. CASE given = "text"
  <2>1. InsertAt(rules, 1, r) = <<r>> \o rules
    <3>1. rules \in Seq(AllRules) /\ <<r>> \in Seq(AllRules)
      BY <1>2 DEF RuleList
    <3>2. SubSeq(rules, 1, 0) = <<>> /\ SubSeq(rules, 1, Len(rules)) = rules
      BY <3>1, SubSeqEmpty, SubSeqFull
    <3>3. <<>> \o <<r>> = <<r>>
      BY <3>1, ConcatEmptySeq
    <3> QED
      BY <3>2, <3>3 DEF InsertAt
  <2>2. RuleList(<<r>> \o rules, edited \ {r})
    <3>1. 1 \in 1..(Len(rules) + 1)
      BY DEF RuleList
    <3>2. /\ InsertAt(rules, 1, r) \in Seq(AllRules) /\ IsInjective(InsertAt(rules, 1, r))
          /\ ToSet(InsertAt(rules, 1, r)) = ToSet(rules) \union {r}
      BY <1>2, <3>1, InsertedOne DEF RuleList
    <3> QED
      BY <2>1, <3>2 DEF RuleList
  <2>3. RulesThen("add", arg) = <<r>> \o rules /\ EditedThen("add", arg) = edited \ {r}
    BY DEF RulesThen, EditedThen
  <2> QED
    BY <1>1, <1>3, <2>2, <2>3 DEF Same
<1>4. CASE given # "text"
  BY <1>1, <1>2, <1>4 DEF Same
<1> QED
  BY <1>3, <1>4

\* The rule that is asked to be changed is the one the server finds there.
LEMMA Updating ==
  ASSUME ListInv, NEW c \in Clients, NEW given \in {"text", "member"}, UpdateRule(c, given)
  PROVE  ListInv'
<1> PICK pos \in Positions :
           RuleRequest(c, "update", [pos |-> pos, action |-> Text(given)], asked.rules,
             IF given = "text" THEN asked.edited \union {rules[pos + 1]} ELSE asked.edited)
  BY DEF UpdateRule
<1> DEFINE arg == [pos |-> pos, action |-> Text(given)]
           changed == IF given = "text" THEN asked.edited \union {rules[pos + 1]}
                      ELSE asked.edited
<1> SUFFICES ASSUME RuleList(rules, edited), Same
             PROVE  /\ RuleList(asked.rules, changed)
                    /\ IF NotThere("update", arg) THEN asked.rules = rules /\ changed = edited
                       ELSE /\ asked.rules = RulesThen("update", arg)
                            /\ changed = EditedThen("update", arg)
  BY Asking
<1>1. NotThere("update", arg) <=> given # "text"
  BY DEF NotThere, Text
<1>2. RulesThen("update", arg) = rules
      /\ EditedThen("update", arg) = edited \union {rules[pos + 1]}
  BY DEF RulesThen, EditedThen
<1> QED
  BY <1>1, <1>2, RuleAt DEF Same, RuleList

\* The rule that is asked to go is the one the server takes away.
LEMMA Deleting ==
  ASSUME ListInv, NEW c \in Clients, DeleteRule(c)
  PROVE  ListInv'
<1> PICK pos \in Positions :
           RuleRequest(c, "delete", [pos |-> pos], RemoveFirst(asked.rules, rules[pos + 1]),
                       asked.edited \ {rules[pos + 1]})
  BY DEF DeleteRule
<1> DEFINE arg == [pos |-> pos]
           list == RemoveFirst(asked.rules, rules[pos + 1])
           changed == asked.edited \ {rules[pos + 1]}
<1> SUFFICES ASSUME RuleList(rules, edited), Same
             PROVE  /\ RuleList(list, changed)
                    /\ IF NotThere("delete", arg) THEN list = rules /\ changed = edited
                       ELSE list = RulesThen("delete", arg) /\ changed = EditedThen("delete", arg)
  BY Asking
<1>1. ~NotThere("delete", arg)
  BY DEF NotThere
<1>2. list = RemoveAt(rules, pos + 1)
  BY RuleAt, RemoveFirstIs DEF RuleList, Same
<1>3. RuleList(RemoveAt(rules, pos + 1), edited \ {rules[pos + 1]})
  BY RuleAt, RemovedOne DEF RuleList
<1>4. RulesThen("delete", arg) = RemoveAt(rules, pos + 1)
      /\ EditedThen("delete", arg) = edited \ {rules[pos + 1]}
  BY DEF RulesThen, EditedThen
<1> QED
  BY <1>1, <1>2, <1>3, <1>4 DEF Same

\* A rule is asked for, and put, at a place counted without it.
LEMMA Moving ==
  ASSUME ListInv, NEW c \in Clients, MoveRule(c)
  PROVE  ListInv'
<1> DEFINE rest(pos) == RemoveFirst(asked.rules, rules[pos + 1])
           list(pos, new) == IF new <= Len(rest(pos))
                             THEN InsertAt(rest(pos), new + 1, rules[pos + 1]) ELSE asked.rules
<1> PICK pos \in Positions, new \in Positions :
           RuleRequest(c, "move", [pos |-> pos, new |-> new], list(pos, new), asked.edited)
  BY DEF MoveRule
<1> DEFINE arg == [pos |-> pos, new |-> new]
<1> SUFFICES ASSUME RuleList(rules, edited), Same
             PROVE  /\ RuleList(list(pos, new), asked.edited)
                    /\ IF NotThere("move", arg) THEN list(pos, new) = rules /\ asked.edited = edited
                       ELSE /\ list(pos, new) = RulesThen("move", arg)
                            /\ asked.edited = EditedThen("move", arg)
  BY Asking
<1>1. ~NotThere("move", arg)
  BY DEF NotThere
<1> DEFINE left == RemoveAt(rules, pos + 1)
           x == rules[pos + 1]
<1>2. rest(pos) = left
  BY RuleAt, RemoveFirstIs DEF RuleList, Same
<1>3. /\ left \in Seq(AllRules) /\ IsInjective(left) /\ ToSet(left) = ToSet(rules) \ {x}
      /\ Len(left) = Len(rules) - 1
  BY RuleAt, RemovedOne, RemoveAtIs DEF RuleList
<1> HIDE DEF left
<1>4. new <= Len(left) /\ new + 1 \in 1..(Len(left) + 1)
  BY <1>3 DEF Positions
<1>5. list(pos, new) = InsertAt(left, new + 1, x)
  BY <1>2, <1>4
<1>6. x \in AllRules /\ x \notin ToSet(left) /\ x \in ToSet(rules)
  BY <1>3, RuleAt
<1>7. RuleList(InsertAt(left, new + 1, x), edited)
  <2>1. /\ InsertAt(left, new + 1, x) \in Seq(AllRules)
        /\ IsInjective(InsertAt(left, new + 1, x))
        /\ ToSet(InsertAt(left, new + 1, x)) = ToSet(left) \union {x}
    BY <1>3, <1>4, <1>6, InsertedOne
  <2> QED
    BY <1>3, <1>6, <2>1 DEF RuleList
<1>8. RulesThen("move", arg) = InsertAt(left, new + 1, x) /\ EditedThen("move", arg) = edited
  BY DEF RulesThen, EditedThen, MovedTo, left
<1> QED
  BY <1>1, <1>5, <1>7, <1>8 DEF Same

\* What an answer makes of a call.
LEMMA Answered ==
  ASSUME CallTypes, NEW c \in Clients, NEW a, call' = Answer(c, a)
  PROVE  /\ CallTypes' /\ \A d \in Clients \ {c} : call'[d] = call[d]
         /\ call'[c].pc = "answered" /\ call'[c].answer = a
         /\ call'[c].op = call[c].op /\ call'[c].arg = call[c].arg
  BY DEF CallTypes, Answer

\* What becomes of a call that ends or is tried again.
LEMMA TriedAgain ==
  ASSUME CallTypes, NEW c \in Clients, call' = Again(c) \/ call' = Ended(c)
  PROVE  /\ CallTypes' /\ \A d \in Clients \ {c} : call'[d] = call[d]
         /\ \/ call'[c].pc = "idle"
            \/ /\ call' = Again(c) /\ call'[c].pc = "sent"
               /\ call'[c].op = call[c].op /\ call'[c].arg = call[c].arg
         /\ call' = Ended(c) => call'[c].pc = "idle"
  BY DEF CallTypes, Again, Ended, NoCall

\* The server does what the request leads to, or refuses it.
LEMMA Serving ==
  ASSUME ListInv, NEW c \in Clients, ServeRule(c)
  PROVE  ListInv'
<1> PICK a \in {"ok", "error"} :
           /\ call' = Answer(c, a)
           /\ a = "error" => NotThere(call[c].op, call[c].arg) /\ UNCHANGED ruleVars
           /\ a = "ok" => /\ ~NotThere(call[c].op, call[c].arg)
                          /\ Changed(call[c].op, call[c].arg)
  BY DEF ServeRule
<1>1. /\ CallTypes' /\ \A d \in Clients \ {c} : call'[d] = call[d]
      /\ call'[c].pc = "answered" /\ call'[c].answer = a
      /\ call'[c].op = call[c].op /\ call'[c].arg = call[c].arg
  BY Answered DEF ListInv
<1>2. call[c].pc = "sent" /\ UNCHANGED <<asked, clean, late>>
  BY DEF ServeRule, Changed, ruleVars
<1>3. ASSUME clean' PROVE CleanInv'
  <2>1. CleanInv /\ Leads(call[c].op, call[c].arg)
    BY <1>2, <1>3 DEF ListInv, CleanInv
  <2>2. Same'
    <3>1. CASE a = "error"
      BY <2>1, <3>1 DEF Leads, Same, ruleVars
    <3>2. CASE a = "ok"
      BY <2>1, <3>2 DEF Leads, Same, Changed, RulesThen, EditedThen
    <3> QED
      BY <3>1, <3>2
  <2>3. a = "error" => NotThere(call[c].op, call[c].arg)'
    BY <1>1 DEF NotThere, Positions, ruleVars
  <2>4. \A d \in Clients \ {c} : call'[d].pc = "idle"
    BY <1>1, <1>2, <2>1 DEF CleanInv
  <2> QED
    BY <1>1, <1>2, <2>1, <2>2, <2>3, <2>4 DEF CleanInv
<1> QED
  BY <1>1, <1>3 DEF ListInv

\* A call that was answered ends, or is tried again because it was refused.
LEMMA Returning ==
  ASSUME ListInv, NEW c \in Clients, Refused(c) \/ Returns(c), UNCHANGED ruleVars
  PROVE  ListInv'
<1>1. /\ CallTypes' /\ \A d \in Clients \ {c} : call'[d] = call[d]
      /\ \/ call'[c].pc = "idle"
         \/ /\ call[c].answer = "error" /\ call'[c].pc = "sent"
            /\ call'[c].op = call[c].op /\ call'[c].arg = call[c].arg
  <2>1. CASE Refused(c)
    <3>1. call[c].answer = "error" /\ (call' = Again(c) \/ call' = Ended(c))
      BY <2>1 DEF Refused
    <3> QED
      BY <3>1, TriedAgain DEF ListInv
  <2>2. CASE Returns(c)
    <3>1. call' = Ended(c)
      BY <2>2 DEF Returns
    <3> QED
      BY <3>1, TriedAgain DEF ListInv
  <2> QED
    BY <2>1, <2>2
<1>2. call[c].pc = "answered" /\ UNCHANGED <<rules, edited, asked, clean, late>>
  BY DEF Refused, Returns, ruleVars
<1>3. ASSUME clean' PROVE CleanInv'
  <2>1. /\ CleanInv /\ Same
        /\ call[c].answer = "ok" \/ NotThere(call[c].op, call[c].arg)
    BY <1>2, <1>3 DEF ListInv, CleanInv
  <2>2. Same' /\ (call'[c].pc = "sent" => Leads(call[c].op, call[c].arg)')
    <3>1. Same'
      BY <1>2, <2>1 DEF Same
    <3>2. ASSUME call'[c].pc = "sent" PROVE NotThere(call[c].op, call[c].arg)'
      <4>1. NotThere(call[c].op, call[c].arg)
        BY <1>1, <2>1, <3>2
      <4> QED
        BY <1>1, <1>2, <3>2, <4>1 DEF NotThere, Positions
    <3> QED
      BY <3>1, <3>2 DEF Leads
  <2>3. \A d \in Clients \ {c} : call'[d].pc = "idle"
    BY <1>1, <1>2, <2>1 DEF CleanInv
  <2> QED
    BY <1>1, <1>2, <2>1, <2>2, <2>3 DEF CleanInv
<1> QED
  BY <1>1, <1>3 DEF ListInv

\* Every step of the rules keeps the invariant of the list.
LEMMA RulesStep == ListInv /\ [RulesNext]_<<apiVars, requestVars, ruleVars>> => ListInv'
<1> SUFFICES ASSUME ListInv, [RulesNext]_<<apiVars, requestVars, ruleVars>> PROVE ListInv'
  OBVIOUS
<1>1. ASSUME UNCHANGED <<requestVars, ruleVars>> PROVE ListInv'
  <2>1. UNCHANGED <<call, late, rules, edited, asked, clean>>
    BY <1>1 DEF requestVars, ruleVars
  <2>2. CallTypes'
    BY <2>1 DEF ListInv, CallTypes
  <2>3. CleanInv => CleanInv'
    <3>1. \A c \in Clients : Leads(call[c].op, call[c].arg) => Leads(call[c].op, call[c].arg)'
      BY <2>1 DEF Leads, Same, NotThere, Positions, RulesThen, EditedThen
    <3>2. \A c \in Clients :
            NotThere(call[c].op, call[c].arg) => NotThere(call[c].op, call[c].arg)'
      BY <2>1 DEF NotThere, Positions
    <3>3. Same => Same'
      BY <2>1 DEF Same
    <3>4. RuleList(asked.rules, asked.edited) => RuleList(asked.rules, asked.edited)'
      BY <2>1 DEF RuleList
    <3> QED
      BY <2>1, <3>1, <3>2, <3>3, <3>4 DEF CleanInv
  <2> QED
    BY <2>1, <2>2, <2>3 DEF ListInv
<1>2. CASE APINext /\ UNCHANGED ruleVars
  <2>1. UNCHANGED requestVars
    BY <1>2 DEF APINext, Create, Close, CloseAgain, CloseReturns, CloseCancelled
  <2> QED
    BY <1>1, <1>2, <2>1
<1>3. ASSUME NEW c \in Clients, LoseRule(c) PROVE ListInv'
  <2>1. CallTypes'
    BY <1>3, TriedAgain DEF LoseRule, Lose, ListInv
  <2> QED
    BY <1>3, <2>1 DEF LoseRule, ListInv
<1>4. CASE ServeRuleLate
  <2>1. ~clean /\ ~clean'
    BY <1>4 DEF ServeRuleLate, Changed, ruleVars, ListInv, CleanInv
  <2>2. CallTypes'
    BY <1>4 DEF ServeRuleLate, ListInv, CallTypes
  <2> QED
    BY <2>1, <2>2 DEF ListInv
<1> QED
  BY <1>1, <1>2, <1>3, <1>4, Adding, Updating, Moving, Deleting, Serving, Returning
  DEF RulesNext

\* The invariant of the list holds in every reachable state.
THEOREM ListCorrect == RulesSpec => []ListInv
  BY RulesStart, RulesStep, PTL DEF RulesSpec

\* As long as calls do not overlap and every answer comes, the list holds between
\* calls what they asked for, rule by rule: for every list and every number of calls.
THEOREM ListHoldsWhatWasAsked == RulesSpec => []ListAsAsked
<1>1. ListInv => ListAsAsked
  BY DEF ListInv, CleanInv, Same, ListAsAsked
<1> QED
  BY <1>1, ListCorrect, PTL

-----------------------------------------------------------------------------
(* What the tables of the helpers have in common *)

\* A method that leaves a value out of a request goes with a from_dict that puts that
\* value in the place of a missing one, and an update never leaves out a value it was
\* given, unless it is falsy and the helper one of NotCleared.
FitsCreate(add, read) ==
    \/ add = "always" /\ read \in {"plain", "default", "unread"}
    \/ add \in {"given", "truthy", "flag"} /\ read \in {"plain", "unread"}
    \/ add = "on" /\ read \in {"flagOff", "unread"}
    \/ add \in {"off", "unless", "switch"} /\ read \in {"default", "unread"}

FitsUpdate(set, read) ==
    \/ set \in {"always", "truthy"} /\ read \in {"plain", "unread"}
    \/ set = "given" /\ read \in {"plain", "default", "unread"}
    \/ set = "flag" /\ read \in {"plain", "flagOff", "default", "unread"}
    \/ set = "inverse" /\ read = "inverse"

Fits(p) ==
    /\ p.rules.add = "never" /\ p.rules.kind \notin {"object", "single"} =>
         p.rules.read \in {"plain", "unread"}
    /\ p.rules.add = "never" \/ FitsCreate(p.rules.add, p.rules.read)
    /\ p.rules.set = "never" \/ FitsUpdate(p.rules.set, p.rules.read)
    /\ p.rules.set = "truthy" => p.name \in NotCleared

\* The rules a key may be read by, and the one a treatment names in their place.
ReadRules == {"plain", "required", "flagOff", "flagOn", "default", "inverse", "unread"}

Normal(rule) ==
    IF rule \in {"plain", "required"} THEN "plain"
    ELSE IF rule \in {"default", "flagOn"} THEN "default"
    ELSE rule

\* Families whose answers have the form and the keys their helper expects.
StorageNames == {"storage", "nfs", "cifs", "dir", "lvm", "lvmthin", "zfspool", "rbd", "pbs"}

\* What Fits asks of the rules of a key of family f.
RulesFit(f, add, set, read) ==
    /\ read \in ReadRules
    /\ add = "never" /\ f.kind \notin {"object", "single"} => Normal(read) \in {"plain", "unread"}
    /\ add = "never" \/ FitsCreate(add, Normal(read))
    /\ set = "never" \/ FitsUpdate(set, Normal(read))
    /\ set = "truthy" => f.name \in NotCleared
    /\ set = "inverse" => f.name \in StorageNames /\ f.form = "one"

\* Table t has rule r for key k; and r is what RuleOf finds of it.
Has(t, k, r) == k \in DOMAIN t /\ t[k] = r

Finds(t, k, r, otherwise) == Has(t, k, r) \/ (r = otherwise /\ k \notin DOMAIN t)

\* The rules of each key of a family fit.
FamilyFits(f) ==
    \A k, add, set, read :
        /\ k \in KeysOf(f) \union {"answer"}
        /\ Finds(f.add, k, add, "never")
        /\ Finds(f.set, k, set, "never")
        /\ Finds(f.read, k, read, "unread")
        => RulesFit(f, add, set, read)

\* RuleOf finds a rule.
LEMMA FindsRule ==
  ASSUME NEW t, NEW k, NEW o
  PROVE  Finds(t, k, RuleOf(t, k, o), o)
  BY DEF Finds, Has, RuleOf

\* The keys of two tables put together are those of both.
LEMMA MergedKeys ==
  ASSUME NEW f, NEW g, NEW k
  PROVE  k \in DOMAIN (f ++ g) <=> k \in DOMAIN f \/ k \in DOMAIN g
  BY DEF ++

\* Their rules are those of the first, and of the second for what the first lacks.
LEMMA MergedHas ==
  ASSUME NEW f, NEW g, NEW k, NEW r
  PROVE  Has(f ++ g, k, r) <=> Has(f, k, r) \/ (k \notin DOMAIN f /\ Has(g, k, r))
  BY DEF ++, Has

\* The keys of a table with one rule.
LEMMA ByKeys ==
  ASSUME NEW rule, NEW keys
  PROVE  DOMAIN By(rule, keys) = keys
  BY DEF By

\* That rule, for each of these keys, is all it has.
LEMMA ByHas ==
  ASSUME NEW rule, NEW keys, NEW k, NEW r
  PROVE  Has(By(rule, keys), k, r) <=> k \in keys /\ r = rule
  BY DEF By, Has

\* The tables of proxmoxer/helpers/access.py fit.
LEMMA AccessFits == \A f \in AccessFamilies : FamilyFits(f)
<1> USE MergedKeys, MergedHas, ByKeys, ByHas
    DEF FamilyFits, RulesFit, FitsCreate, FitsUpdate, NotCleared, Normal, ReadRules, KeysOf,
        StorageNames, Modifier, Finds, Always, Switch, Given, Flag, Truthy, On, Off, Unless, Inverted, Required,
        Plain, FlagOff, FlagOn, Default, NoFields, Object, Listed, Single, Asked, Query, Entries,
        Command
<1>1. FamilyFits(User)
  BY DEF User, UserRead
<1>2. FamilyFits(ListUsers)
  BY DEF ListUsers, UserRead
<1>3. FamilyFits(Group)
  BY DEF Group, GroupRead
<1>4. FamilyFits(Role)
  BY DEF Role, RoleRead
<1>5. FamilyFits(ACL)
  BY DEF ACL, ACLRead
<1>6. FamilyFits(APIToken)
  BY DEF APIToken, APITokenRead
<1>7. FamilyFits(Domain)
  BY DEF Domain, DomainRead
<1>8. FamilyFits(Password)
  BY DEF Password
<1>9. FamilyFits(Permissions)
  BY DEF Permissions
<1>10. FamilyFits(TFA)
  BY DEF TFA
<1> HIDE DEF FamilyFits
<1> QED
  BY <1>1, <1>2, <1>3, <1>4, <1>5, <1>6, <1>7, <1>8, <1>9, <1>10 DEF AccessFamilies

\* The tables of proxmoxer/helpers/storage.py and of pools.py fit.
LEMMA StorageFits == \A f \in StorageFamilies : FamilyFits(f)
<1> USE MergedKeys, MergedHas, ByKeys, ByHas
    DEF FamilyFits, RulesFit, FitsCreate, FitsUpdate, NotCleared, Normal, ReadRules, KeysOf,
        StorageNames, Modifier, Finds, Always, Switch, Given, Flag, Truthy, On, Off, Unless, Inverted, Required,
        Plain, FlagOff, FlagOn, Default, NoFields, Object, Listed, Single, Asked, Query, Entries,
        Command
<1>1. FamilyFits(AnyStorage)
  BY DEF AnyStorage, Storage, StorageSet, StorageRead
<1>2. FamilyFits(NFSStorage)
  BY DEF NFSStorage, Storage, StorageSet, StorageRead
<1>3. FamilyFits(CIFSStorage)
  BY DEF CIFSStorage, Storage, StorageSet, StorageRead
<1>4. FamilyFits(DirStorage)
  BY DEF DirStorage, Storage, StorageSet, StorageRead
<1>5. FamilyFits(LVMStorage)
  BY DEF LVMStorage, Storage, StorageSet, StorageRead
<1>6. FamilyFits(LVMThinStorage)
  BY DEF LVMThinStorage, Storage, StorageSet, StorageRead
<1>7. FamilyFits(ZFSStorage)
  BY DEF ZFSStorage, Storage, StorageSet, StorageRead
<1>8. FamilyFits(RBDStorage)
  BY DEF RBDStorage, Storage, StorageSet, StorageRead
<1>9. FamilyFits(PBSStorage)
  BY DEF PBSStorage, Storage, StorageSet, StorageRead
<1>10. FamilyFits(Pool)
  BY DEF Pool, PoolRead
<1>11. FamilyFits(PoolMembers)
  BY DEF PoolMembers
<1> HIDE DEF FamilyFits
<1> QED
  BY <1>1, <1>2, <1>3, <1>4, <1>5, <1>6, <1>7, <1>8, <1>9, <1>10, <1>11 DEF StorageFamilies

\* The tables of proxmoxer/helpers/sdn.py fit.
LEMMA SDNFits == \A f \in SDNFamilies : FamilyFits(f)
<1> USE MergedKeys, MergedHas, ByKeys, ByHas
    DEF FamilyFits, RulesFit, FitsCreate, FitsUpdate, NotCleared, Normal, ReadRules, KeysOf,
        StorageNames, Modifier, Finds, Always, Switch, Given, Flag, Truthy, On, Off, Unless, Inverted, Required,
        Plain, FlagOff, FlagOn, Default, NoFields, Object, Listed, Single, Asked, Query, Entries,
        Command
<1>1. FamilyFits(VNet)
  BY DEF VNet, VNetRead
<1>2. FamilyFits(Subnet)
  BY DEF Subnet, SubnetRead
<1>3. FamilyFits(Zone)
  BY DEF Zone, ZoneRead
<1>4. FamilyFits(Controller)
  BY DEF Controller, ControllerRead
<1>5. FamilyFits(IPAM)
  BY DEF IPAM, IPAMRead
<1>6. FamilyFits(DNS)
  BY DEF DNS, DNSRead
<1>7. FamilyFits(ReloadSDN)
  BY DEF ReloadSDN
<1> HIDE DEF FamilyFits
<1> QED
  BY <1>1, <1>2, <1>3, <1>4, <1>5, <1>6, <1>7 DEF SDNFamilies

\* The tables of proxmoxer/helpers/ceph.py and of disks.py fit.
LEMMA CephFits == \A f \in CephFamilies : FamilyFits(f)
<1> USE MergedKeys, MergedHas, ByKeys, ByHas
    DEF FamilyFits, RulesFit, FitsCreate, FitsUpdate, NotCleared, Normal, ReadRules, KeysOf,
        StorageNames, Modifier, Finds, Always, Switch, Given, Flag, Truthy, On, Off, Unless, Inverted, Required,
        Plain, FlagOff, FlagOn, Default, NoFields, Object, Listed, Single, Asked, Query, Entries,
        Command
<1>1. FamilyFits(CephPool)
  BY DEF CephPool, CephPoolRead
<1>2. FamilyFits(DestroyPool)
  BY DEF DestroyPool
<1>3. FamilyFits(ListCephFS)
  BY DEF ListCephFS, CephFSRead
<1>4. FamilyFits(CephFS)
  BY DEF CephFS
<1>5. FamilyFits(InitCeph)
  BY DEF InitCeph
<1>6. FamilyFits(StartStopCeph)
  BY DEF StartStopCeph
<1>7. FamilyFits(ListOSDs)
  BY DEF ListOSDs, OSDRead
<1>8. FamilyFits(OSD)
  BY DEF OSD
<1>9. FamilyFits(DestroyOSD)
  BY DEF DestroyOSD
<1>10. FamilyFits(MarkOSD)
  BY DEF MarkOSD
<1>11. FamilyFits(ListMonitors)
  BY DEF ListMonitors, MonRead
<1>12. FamilyFits(Monitor)
  BY DEF Monitor
<1>13. FamilyFits(ListManagers)
  BY DEF ListManagers, MgrRead
<1>14. FamilyFits(Managers)
  BY DEF Managers
<1>15. FamilyFits(ListMDS)
  BY DEF ListMDS, MDSRead
<1>16. FamilyFits(MDS)
  BY DEF MDS
<1>17. FamilyFits(Destroyed)
  BY DEF Destroyed
<1>18. FamilyFits(Flags)
  BY DEF Flags
<1>19. FamilyFits(CephLog)
  BY DEF CephLog
<1>20. FamilyFits(ListDisks)
  BY DEF ListDisks, DiskRead
<1>21. FamilyFits(SMART)
  BY DEF SMART, SMARTRead
<1>22. FamilyFits(ListLVM)
  BY DEF ListLVM, LVMRead
<1>23. FamilyFits(LVM)
  BY DEF LVM
<1>24. FamilyFits(DeleteLVM)
  BY DEF DeleteLVM
<1>25. FamilyFits(LVMThin)
  BY DEF LVMThin
<1>26. FamilyFits(DeleteLVMThin)
  BY DEF DeleteLVMThin
<1>27. FamilyFits(ListZFS)
  BY DEF ListZFS, ZFSRead
<1>28. FamilyFits(GetZFS)
  BY DEF GetZFS, ZFSRead
<1>29. FamilyFits(ZFS)
  BY DEF ZFS
<1>30. FamilyFits(DeleteZFS)
  BY DEF DeleteZFS
<1>31. FamilyFits(ListDirectories)
  BY DEF ListDirectories, DirectoryRead
<1>32. FamilyFits(Directory)
  BY DEF Directory
<1>33. FamilyFits(DeleteDirectory)
  BY DEF DeleteDirectory
<1> HIDE DEF FamilyFits
<1> QED
  BY <1>1, <1>2, <1>3, <1>4, <1>5, <1>6, <1>7, <1>8, <1>9, <1>10, <1>11, <1>12, <1>13, <1>14,
     <1>15, <1>16, <1>17, <1>18, <1>19, <1>20, <1>21, <1>22, <1>23, <1>24, <1>25, <1>26,
     <1>27, <1>28, <1>29, <1>30, <1>31, <1>32, <1>33 DEF CephFamilies

\* The tables of proxmoxer/helpers/notifications.py fit.
LEMMA NotificationFits == \A f \in NotificationFamilies : FamilyFits(f)
<1> USE MergedKeys, MergedHas, ByKeys, ByHas
    DEF FamilyFits, RulesFit, FitsCreate, FitsUpdate, NotCleared, Normal, ReadRules, KeysOf,
        StorageNames, Modifier, Finds, Always, Switch, Given, Flag, Truthy, On, Off, Unless, Inverted, Required,
        Plain, FlagOff, FlagOn, Default, NoFields, Object, Listed, Single, Asked, Query, Entries,
        Command
<1>1. FamilyFits(ListTargets)
  BY DEF ListTargets, TargetRead
<1>2. FamilyFits(TestEndpoint)
  BY DEF TestEndpoint
<1>3. FamilyFits(Sendmail)
  BY DEF Sendmail, EndpointRead
<1>4. FamilyFits(SMTP)
  BY DEF SMTP, SMTPRead
<1>5. FamilyFits(SMTPUpdate)
  BY DEF SMTPUpdate, SMTPRead
<1>6. FamilyFits(Gotify)
  BY DEF Gotify, GotifyRead
<1>7. FamilyFits(Webhook)
  BY DEF Webhook, EndpointRead
<1>8. FamilyFits(Matcher)
  BY DEF Matcher, MatcherRead
<1> HIDE DEF FamilyFits
<1> QED
  BY <1>1, <1>2, <1>3, <1>4, <1>5, <1>6, <1>7, <1>8 DEF NotificationFamilies

\* The tables of proxmoxer/helpers/cluster.py fit.
LEMMA ClusterFits == \A f \in ClusterFamilies : FamilyFits(f)
<1> USE MergedKeys, MergedHas, ByKeys, ByHas
    DEF FamilyFits, RulesFit, FitsCreate, FitsUpdate, NotCleared, Normal, ReadRules, KeysOf,
        StorageNames, Modifier, Finds, Always, Switch, Given, Flag, Truthy, On, Off, Unless, Inverted, Required,
        Plain, FlagOff, FlagOn, Default, NoFields, Object, Listed, Single, Asked, Query, Entries,
        Command
<1>1. FamilyFits(HAResource)
  BY DEF HAResource, HAResourceRead
<1>2. FamilyFits(HAGroup)
  BY DEF HAGroup, HAGroupRead
<1>3. FamilyFits(BackupJob)
  BY DEF BackupJob, BackupJobRead
<1>4. FamilyFits(ReplicationJob)
  BY DEF ReplicationJob, ReplicationJobRead
<1>5. FamilyFits(DeleteReplicationJob)
  BY DEF DeleteReplicationJob
<1>6. FamilyFits(ACMEAccount)
  BY DEF ACMEAccount, ACMEAccountRead
<1>7. FamilyFits(ACMETerms)
  BY DEF ACMETerms
<1>8. FamilyFits(ACMELists)
  BY DEF ACMELists
<1>9. FamilyFits(Options)
  BY DEF Options
<1>10. FamilyFits(MoveHAResource)
  BY DEF MoveHAResource
<1>11. FamilyFits(HAStatus)
  BY DEF HAStatus
<1>12. FamilyFits(ClusterStatus)
  BY DEF ClusterStatus
<1>13. FamilyFits(ClusterResources)
  BY DEF ClusterResources, ClusterResourceRead
<1>14. FamilyFits(NextVMID)
  BY DEF NextVMID
<1> HIDE DEF FamilyFits
<1> QED
  BY <1>1, <1>2, <1>3, <1>4, <1>5, <1>6, <1>7, <1>8, <1>9, <1>10, <1>11, <1>12, <1>13, <1>14
     DEF ClusterFamilies

\* The tables of proxmoxer/helpers/firewall.py fit.
LEMMA FirewallFits == \A f \in FirewallFamilies : FamilyFits(f)
<1> USE MergedKeys, MergedHas, ByKeys, ByHas
    DEF FamilyFits, RulesFit, FitsCreate, FitsUpdate, NotCleared, Normal, ReadRules, KeysOf,
        StorageNames, Modifier, Finds, Always, Switch, Given, Flag, Truthy, On, Off, Unless, Inverted, Required,
        Plain, FlagOff, FlagOn, Default, NoFields, Object, Listed, Single, Asked, Query, Entries,
        Command
<1>1. FamilyFits(FirewallOptions)
  BY DEF FirewallOptions, FirewallOptionsRead
<1>2. FamilyFits(EnableFirewall)
  BY DEF EnableFirewall
<1>3. FamilyFits(Alias)
  BY DEF Alias, AliasRead
<1>4. FamilyFits(IPSet)
  BY DEF IPSet, IPSetRead
<1>5. FamilyFits(IPSetEntry)
  BY DEF IPSetEntry, IPSetEntryRead
<1>6. FamilyFits(Rule)
  BY DEF Rule, RuleSent, RuleRead
<1>7. FamilyFits(FirewallLog)
  BY DEF FirewallLog, LogRead
<1>8. FamilyFits(FirewallRefs)
  BY DEF FirewallRefs, RefRead
<1> HIDE DEF FamilyFits
<1> QED
  BY <1>1, <1>2, <1>3, <1>4, <1>5, <1>6, <1>7, <1>8 DEF FirewallFamilies

\* The tables of proxmoxer/helpers/nodes.py fit.
LEMMA NodeFits == \A f \in NodeFamilies : FamilyFits(f)
<1> USE MergedKeys, MergedHas, ByKeys, ByHas
    DEF FamilyFits, RulesFit, FitsCreate, FitsUpdate, NotCleared, Normal, ReadRules, KeysOf,
        StorageNames, Modifier, Finds, Always, Switch, Given, Flag, Truthy, On, Off, Unless, Inverted, Required,
        Plain, FlagOff, FlagOn, Default, NoFields, Object, Listed, Single, Asked, Query, Entries,
        Command
<1>1. FamilyFits(NetworkInterface)
  BY DEF NetworkInterface, NetworkInterfaceRead
<1>2. FamilyFits(Snapshot)
  BY DEF Snapshot, SnapshotRead
<1>3. FamilyFits(DeleteSnapshot)
  BY DEF DeleteSnapshot
<1>4. FamilyFits(RollbackSnapshot)
  BY DEF RollbackSnapshot
<1>5. FamilyFits(VM)
  BY DEF VM, VMRead
<1>6. FamilyFits(DeleteVM)
  BY DEF DeleteVM
<1>7. FamilyFits(StopVM)
  BY DEF StopVM
<1>8. FamilyFits(StartVM)
  BY DEF StartVM
<1>9. FamilyFits(ResetVM)
  BY DEF ResetVM
<1>10. FamilyFits(CloneVM)
  BY DEF CloneVM
<1>11. FamilyFits(MigrateVM)
  BY DEF MigrateVM
<1>12. FamilyFits(BackupVM)
  BY DEF BackupVM
<1>13. FamilyFits(AgentExec)
  BY DEF AgentExec, ExecRead
<1>14. FamilyFits(AgentExecStatus)
  BY DEF AgentExecStatus, ExecRead
<1>15. FamilyFits(AgentShutdown)
  BY DEF AgentShutdown
<1>16. FamilyFits(AgentInfo)
  BY DEF AgentInfo
<1>17. FamilyFits(AgentOSInfo)
  BY DEF AgentOSInfo
<1>18. FamilyFits(AgentFSInfo)
  BY DEF AgentFSInfo
<1>19. FamilyFits(NodeStatus)
  BY DEF NodeStatus
<1>20. FamilyFits(NodeVersion)
  BY DEF NodeVersion, NodeVersionRead
<1>21. FamilyFits(NetworkConfiguration)
  BY DEF NetworkConfiguration
<1>22. FamilyFits(PowerNode)
  BY DEF PowerNode
<1>23. FamilyFits(NodeTime)
  BY DEF NodeTime
<1>24. FamilyFits(Services)
  BY DEF Services, ServiceRead
<1>25. FamilyFits(ServiceState)
  BY DEF ServiceState, ServiceRead
<1>26. FamilyFits(ServiceCommand)
  BY DEF ServiceCommand
<1>27. FamilyFits(StorageContent)
  BY DEF StorageContent, StorageContentRead
<1>28. FamilyFits(ListTasks)
  BY DEF ListTasks
<1>29. FamilyFits(ACMECertificate)
  BY DEF ACMECertificate
<1>30. FamilyFits(CustomCertificate)
  BY DEF CustomCertificate, CertificateRead
<1>31. FamilyFits(DeleteCertificate)
  BY DEF DeleteCertificate
<1>32. FamilyFits(CertificatesInfo)
  BY DEF CertificatesInfo, CertificateRead
<1>33. FamilyFits(APTUpdates)
  BY DEF APTUpdates, APTUpdateRead
<1>34. FamilyFits(UpdateAPT)
  BY DEF UpdateAPT
<1>35. FamilyFits(Changelog)
  BY DEF Changelog
<1>36. FamilyFits(AddRepository)
  BY DEF AddRepository
<1>37. FamilyFits(ChangeRepository)
  BY DEF ChangeRepository
<1>38. FamilyFits(Subscription)
  BY DEF Subscription, SubscriptionRead
<1>39. FamilyFits(UpdateSubscription)
  BY DEF UpdateSubscription
<1> HIDE DEF FamilyFits
<1> QED
  BY <1>1, <1>2, <1>3, <1>4, <1>5, <1>6, <1>7, <1>8, <1>9, <1>10, <1>11, <1>12, <1>13, <1>14,
     <1>15, <1>16, <1>17, <1>18, <1>19, <1>20, <1>21, <1>22, <1>23, <1>24, <1>25, <1>26,
     <1>27, <1>28, <1>29, <1>30, <1>31, <1>32, <1>33, <1>34, <1>35, <1>36, <1>37, <1>38,
     <1>39 DEF NodeFamilies

\* Rules that read alike, and those that do not.
LEMMA ReadAlike ==
    /\ Read["required"] = Read["plain"] /\ Read["flagOn"] = Read["default"]
    /\ \A r \in {"flagOff", "default", "inverse"} : Read[r] # Read["plain"]
    /\ \A r \in {"flagOff", "inverse", "unread"} : Read[r] # Read["default"]
<1>1. {"none", "v1"} \subseteq Value /\ "v1" \in Truth
  BY DEF Value, Truth
<1>2. Read["required"] = Read["plain"] /\ Read["flagOn"] = Read["default"]
  BY DEF Read
<1>3. /\ Read["plain"]["none"] = "none" /\ Read["unread"]["none"] = "none"
      /\ Read["default"]["none"] = "v1" /\ Read["flagOff"]["none"] = "falsy"
  BY <1>1 DEF Read
<1>4. /\ Read["plain"]["v1"] = "v1" /\ Read["default"]["v1"] = "v1"
      /\ Read["inverse"]["v1"] = "falsy"
  BY <1>1 DEF Read
<1> QED
  BY <1>2, <1>3, <1>4

\* A treatment names the rule that reads like the one of the table.
LEMMA TreatmentReads ==
  ASSUME NEW f, NEW k, RuleOf(f.read, k, "unread") \in ReadRules
  PROVE  Treatment(f, k).read =
             IF Decodes(f) THEN Normal(RuleOf(f.read, k, "unread")) ELSE "unread"
  BY ReadAlike DEF Treatment, Normal, ReadRules

\* Every family of every helper fits.
LEMMA FamiliesFit == \A f \in Families : FamilyFits(f)
  BY AccessFits, StorageFits, SDNFits, CephFits, NotificationFits, ClusterFits, FirewallFits,
     NodeFits
  DEF Families

\* What the server answers about storages is decoded.
LEMMA StorageDecodes ==
  ASSUME NEW f, f.name \in StorageNames, f.form = "one"
  PROVE  Decodes(f)
<1>1. RuleOf(Form, f.name, "one") = "one" /\ RuleOf(LeftOut, f.name, {}) = {}
  BY DEF RuleOf, Form, LeftOut, StorageNames
<1> QED
  BY <1>1 DEF Decodes

\* So does every field: what the proofs below need of the tables.
LEMMA TablesFit == \A p \in Fields : Fits(p)
<1> SUFFICES ASSUME NEW f \in Families, NEW k \in KeysOf(f) \union {"answer"}
             PROVE  Fits([name |-> f.name, key |-> k, rules |-> Treatment(f, k)])
  BY DEF Fields
<1> DEFINE t == Treatment(f, k)
           add == RuleOf(f.add, k, "never")
           set == RuleOf(f.set, k, "never")
           read == RuleOf(f.read, k, "unread")
<1>1. RulesFit(f, add, set, read)
  <2>1. Finds(f.add, k, add, "never") /\ Finds(f.set, k, set, "never")
        /\ Finds(f.read, k, read, "unread")
    BY FindsRule
  <2> HIDE DEF add, set, read
  <2> QED
    BY <2>1, FamiliesFit DEF FamilyFits
<1>2. t.kind = f.kind /\ t.add = add /\ t.set = set
  BY DEF Treatment
<1>3. t.read = IF Decodes(f) THEN Normal(read) ELSE "unread"
  BY <1>1, TreatmentReads DEF RulesFit
<1> HIDE DEF t, add, set, read
<1>4. Fits([name |-> f.name, key |-> k, rules |-> t])
  <2>1. CASE Decodes(f)
    BY <1>1, <1>2, <1>3, <2>1 DEF RulesFit, Fits
  <2>2. CASE ~Decodes(f)
    <3>1. add = "never" \/ FitsCreate(add, "unread")
      BY <1>1 DEF RulesFit, FitsCreate
    <3>2. set = "never" \/ FitsUpdate(set, "unread")
      BY <1>1, <2>2, StorageDecodes DEF RulesFit, FitsUpdate
    <3> QED
      BY <1>1, <1>2, <1>3, <2>2, <3>1, <3>2 DEF RulesFit, Fits
  <2> QED
    BY <2>1, <2>2
<1> QED
  BY <1>4 DEF t

-----------------------------------------------------------------------------
(* The fields of objects *)

\* A request of a client is one that a method of the helper sends.
Asks(c, op, arg) ==
    \/ /\ op = IF field.rules.kind = "object" THEN "create" ELSE "run"
       /\ field.rules.kind # "single"
       /\ \E x \in ArgumentsOf(c, field.rules.add) :
            arg = [value |-> x, sent |-> Sent[field.rules.add][x]]
    \/ /\ op = "update"
       /\ \/ \E x \in ArgumentsOf(c, field.rules.set) :
               arg = [value |-> x, sent |-> Sent[field.rules.set][x]]
          \/ c = Owner /\ arg = [value |-> "unset", sent |-> "unset"]
    \/ op = "delete" /\ field.rules.kind = "object"
    \/ op = "get"

RequestsInv ==
    /\ field \in Fields
    /\ CallTypes
    /\ \A c \in Clients : call[c].pc # "idle" => Asks(c, call[c].op, call[c].arg)
    /\ late # NotLate => Asks(late.client, late.op, late.arg)

\* What the owner may count on concerns an object that is there, and what is stored
\* shows it.
ObjectInv ==
    /\ field.rules.kind # "object" => stored # "absent"
    /\ stored = "absent" => want = Anything
    /\ want.op \in {"none", "create", "run", "update"}
    /\ CreatedAsAsked /\ UpdateHolds

FieldInv == RequestsInv /\ ObjectInv

\* What a request holds of a value, rule by rule.
LEMMA SentIs ==
  ASSUME NEW x \in Value
  PROVE  /\ Sent["always"][x] = x /\ Sent["given"][x] = x /\ Sent["flag"][x] = x
         /\ Sent["truthy"][x] = (IF x \in Truth THEN x ELSE "none")
         /\ Sent["switch"][x] = (IF x \in Truth THEN "v1" ELSE "falsy")
         /\ Sent["on"][x] = (IF x \in Truth THEN "v1" ELSE "none")
         /\ Sent["off"][x] = (IF x \in Truth THEN "none" ELSE "falsy")
         /\ Sent["unless"][x] = (IF x = "v1" THEN "none" ELSE x)
         /\ Sent["never"][x] = "none"
  BY DEF Sent

\* What it holds of a flag that is turned round.
LEMMA InverseSent ==
    /\ Sent["inverse"]["none"] = "none" /\ Sent["inverse"]["falsy"] = "v1"
    /\ Sent["inverse"]["v1"] = "falsy"
  BY DEF Sent

\* What is read of a value, rule by rule.
LEMMA ReadIs ==
  ASSUME NEW x \in Value
  PROVE  /\ Read["plain"][x] = x
         /\ Read["flagOff"][x] = (IF x = "none" THEN "falsy" ELSE x)
         /\ Read["default"][x] = (IF x = "none" THEN "v1" ELSE x)
         /\ Read["inverse"][x] = (IF x \in Truth THEN "falsy" ELSE "v1")
  BY DEF Read

\* The arguments of the owner, and of the others.
LEMMA ArgumentsAre ==
    /\ \A r \in {"always", "unless"} : Arguments[r] = Truth
    /\ \A r \in {"given", "truthy"} : Arguments[r] \subseteq Value
    /\ field.rules.read # "default" => \A r \in {"given", "truthy"} : "v2" \notin Arguments[r]
    /\ \A r \in {"flag", "inverse"} : Arguments[r] = {"none", "falsy", "v1"}
    /\ \A r \in {"switch", "on", "off"} : Arguments[r] = {"falsy", "v1"}
    /\ Arguments["never"] = {"none"}
    /\ \A r \in {"given", "flag", "truthy", "inverse", "never"} : Neutral[r] = "none"
  BY DEF Arguments, Neutral, Value, Truth

\* What a method that makes something writes of an argument is read as that argument.
LEMMA MadeShows ==
  ASSUME Fits(field), field.rules.kind # "single",
         NEW x \in Arguments[field.rules.add],
         field.rules.kind = "object" => field.rules.add # "never"
  PROVE  Alike(Decoded(Sent[field.rules.add][x]), x)
<1> DEFINE add == field.rules.add
           read == field.rules.read
<1>1. ASSUME add = "never" PROVE Alike(Decoded(Sent[add][x]), x)
  <2>1. x = "none" /\ Sent[add][x] = "none" /\ read \in {"plain", "unread"}
    BY <1>1, ArgumentsAre, SentIs DEF Fits, Value
  <2> QED
    BY <1>1, <2>1, ReadIs DEF Decoded, Alike, Value
<1>2. ASSUME add \in {"always", "given", "flag", "truthy"}, FitsCreate(add, read)
      PROVE  Alike(Decoded(Sent[add][x]), x)
  <2>1. x \in Value /\ (add = "always" => x \in Truth)
    BY <1>2, ArgumentsAre DEF Value, Truth
  <2>2. Sent[add][x] = x \/ (add = "truthy" /\ x \notin Truth /\ Sent[add][x] = "none")
    BY <1>2, <2>1, SentIs
  <2>3. Sent[add][x] \in Value
    BY <2>1, <2>2 DEF Value
  <2>4. Decoded(Sent[add][x]) = Sent[add][x]
    BY <1>2, <2>1, <2>2, <2>3, ReadIs DEF FitsCreate, Decoded, Value, Truth
  <2> QED
    BY <2>1, <2>2, <2>4 DEF Alike, Value, Truth
<1>3. ASSUME add = "on", FitsCreate(add, read) PROVE Alike(Decoded(Sent[add][x]), x)
  <2>1. x \in {"falsy", "v1"} /\ read \in {"flagOff", "unread"}
        /\ Sent[add][x] = IF x = "v1" THEN "v1" ELSE "none"
    BY <1>3, ArgumentsAre, SentIs DEF FitsCreate, Value, Truth
  <2> QED
    BY <1>3, <2>1, ReadIs DEF Decoded, Alike, Value, Truth
<1>4. ASSUME add \in {"off", "unless", "switch"}, FitsCreate(add, read)
      PROVE  Alike(Decoded(Sent[add][x]), x)
  <2>1. read \in {"default", "unread"} /\ x \in {"falsy", "v1", "v2"}
    BY <1>4, ArgumentsAre DEF FitsCreate, Truth
  <2>2. CASE add = "off"
    <3>1. x \in {"falsy", "v1"} /\ Sent[add][x] = IF x = "v1" THEN "none" ELSE "falsy"
      BY <2>2, ArgumentsAre, SentIs DEF Value, Truth
    <3> QED
      BY <2>1, <2>2, <3>1, ReadIs DEF Decoded, Alike, Value, Truth
  <2>3. CASE add = "unless"
    <3>1. x \in {"v1", "v2"} /\ Sent[add][x] = IF x = "v1" THEN "none" ELSE x
      BY <2>3, ArgumentsAre, SentIs DEF Value, Truth
    <3> QED
      BY <2>1, <2>3, <3>1, ReadIs DEF Decoded, Alike, Value, Truth
  <2>4. CASE add = "switch"
    <3>1. x \in {"falsy", "v1"} /\ Sent[add][x] = x
      BY <2>4, ArgumentsAre, SentIs DEF Value, Truth
    <3> QED
      BY <2>1, <2>4, <3>1, ReadIs DEF Decoded, Alike, Value, Truth
  <2> QED
    BY <1>4, <2>2, <2>3, <2>4
<1> QED
  BY <1>1, <1>2, <1>3, <1>4 DEF Fits, FitsCreate

\* An update that is given a value writes what is read as that value, unless the value
\* is falsy and the helper one that does not clear; given none, it writes nothing.
LEMMA ChangeShows ==
  ASSUME Fits(field), NEW x \in Arguments[field.rules.set]
  PROVE  /\ x = "none" => Sent[field.rules.set][x] = "none"
         /\ x # "none" =>
              \/ /\ Sent[field.rules.set][x] \in Value \ {"none"}
                 /\ Alike(Decoded(Sent[field.rules.set][x]), x)
              \/ /\ field.rules.set = "truthy" /\ x = "falsy" /\ field.name \in NotCleared
                 /\ Sent[field.rules.set][x] = "none"
<1> DEFINE set == field.rules.set
           read == field.rules.read
           sent == Sent[set][x]
<1>1. CASE set = "never"
  BY <1>1, ArgumentsAre, SentIs DEF Value
<1>2. ASSUME set \in {"always", "given", "flag"}, FitsUpdate(set, read)
      PROVE  x \in Value /\ sent = x /\ (x # "none" => Decoded(x) = x)
  <2>1. x \in Value
    BY <1>2, ArgumentsAre DEF Value, Truth
  <2>2. sent = x
    BY <1>2, <2>1, SentIs
  <2>3. read \in {"plain", "default", "flagOff", "unread"}
    BY <1>2 DEF FitsUpdate
  <2> QED
    BY <2>1, <2>2, <2>3, ReadIs DEF Decoded
<1>3. ASSUME set = "truthy", FitsUpdate(set, read)
      PROVE  /\ x \in Value /\ sent = (IF x \in Truth THEN x ELSE "none")
             /\ (x # "none" => Decoded(x) = x)
  <2>1. x \in Value /\ read \in {"plain", "unread"}
    BY <1>3, ArgumentsAre DEF FitsUpdate
  <2> QED
    BY <1>3, <2>1, SentIs, ReadIs DEF Decoded
<1>4. ASSUME set = "inverse", FitsUpdate(set, read)
      PROVE  /\ x = "none" => sent = "none"
             /\ x # "none" => sent \in {"v1", "falsy"} /\ Decoded(sent) = x
  <2>1. x \in {"none", "falsy", "v1"} /\ read = "inverse"
    BY <1>4, ArgumentsAre DEF FitsUpdate
  <2> QED
    BY <1>4, <2>1, InverseSent, ReadIs DEF Decoded, Value, Truth
<1>5. set = "never" \/ FitsUpdate(set, read)
  BY DEF Fits
<1>6. CASE set \in {"always", "given", "flag"} /\ FitsUpdate(set, read)
  BY <1>2, <1>6 DEF Alike
<1>7. CASE set = "truthy" /\ FitsUpdate(set, read)
  <2>1. field.name \in NotCleared
    BY <1>7 DEF Fits
  <2> QED
    BY <1>3, <1>7, <2>1 DEF Alike, Value, Truth
<1>8. CASE set = "inverse" /\ FitsUpdate(set, read)
  BY <1>4, <1>8 DEF Alike, Value, Truth
<1> QED
  BY <1>1, <1>5, <1>6, <1>7, <1>8 DEF FitsUpdate

\* An update of somebody who cares for other fields sends nothing of the field, unless
\* its method has to be given it.
LEMMA OthersKeep ==
  ASSUME Fits(field), field.rules.set # "always"
  PROVE  Sent[field.rules.set][Neutral[field.rules.set]] = "none"
<1>1. field.rules.set \in {"never", "given", "flag", "truthy", "inverse"}
  BY DEF Fits, FitsUpdate
<1>2. Neutral[field.rules.set] = "none"
  BY <1>1, ArgumentsAre
<1> QED
  BY <1>1, <1>2, SentIs, InverseSent DEF Value, Truth

\* What a method that makes something writes of an argument is a value.
LEMMA MadeIsValue ==
  ASSUME Fits(field), NEW c, NEW x \in ArgumentsOf(c, field.rules.add)
  PROVE  Sent[field.rules.add][x] \in Value
<1> DEFINE add == field.rules.add
<1>1. add \in {"never", "always", "given", "truthy", "flag", "on", "off", "unless", "switch"}
  BY DEF Fits, FitsCreate
<1>2. x \in Value
  <2>1. CASE c = Owner
    BY <1>1, <2>1, ArgumentsAre DEF ArgumentsOf, Value, Truth
  <2>2. CASE c # Owner
    <3>1. Neutral[add] \in Value
      BY <1>1 DEF Neutral, Value, Truth
    <3> QED
      BY <2>2, <3>1 DEF ArgumentsOf
  <2> QED
    BY <2>1, <2>2
<1> QED
  BY <1>1, <1>2, SentIs DEF Value, Truth

\* Where the owner may count on nothing, nothing can be missed.
LEMMA NothingCounts ==
  ASSUME want' = Anything, field' = field, field.rules.kind = "object" \/ stored' # "absent"
  PROVE  ObjectInv'
  BY DEF ObjectInv, Anything, CreatedAsAsked, UpdateHolds

\* What stays is as good as it was.
LEMMA StaysAsItIs ==
  ASSUME ObjectInv, UNCHANGED fieldVars
  PROVE  ObjectInv'
  BY DEF ObjectInv, fieldVars, CreatedAsAsked, UpdateHolds, Shows, Decoded, Alike

\* What is stored as it is read, shows.
LEMMA NowShows ==
  ASSUME NEW op \in {"create", "run", "update"}, NEW x, NEW s, s # "absent", x # "unset",
         Alike(Decoded(s), x),
         want' = [op |-> op, value |-> x], stored' = s, field' = field
  PROVE  ObjectInv'
<1>1. Decoded(s) = Decoded(stored)'
  BY DEF Decoded
<1>2. Shows'
  BY <1>1 DEF Shows, Alike
<1> QED
  BY <1>2 DEF ObjectInv, CreatedAsAsked, UpdateHolds

\* A request that the server carries out leaves what the owner counts on, or is what it
\* counts on from then on, or takes it away.
LEMMA CarriedOut ==
  ASSUME Fits(field), ObjectInv, NEW c, NEW op, NEW arg, Asks(c, op, arg), ~Refuses(op),
         stored' = Held(op, arg.sent), want' = Wanted(c, op, arg.value), field' = field
  PROVE  ObjectInv'
<1>1. CASE op = "get"
  BY <1>1, StaysAsItIs DEF Held, Wanted, TakesAway, Sets, fieldVars
<1>2. CASE op = "delete"
  <2>1. field.rules.kind = "object" /\ want' = Anything
    BY <1>2 DEF Asks, Wanted, TakesAway
  <2> QED
    BY <2>1, NothingCounts
<1>3. CASE op \in {"create", "run"}
  <2>1. /\ op = IF field.rules.kind = "object" THEN "create" ELSE "run"
        /\ field.rules.kind # "single"
    BY <1>3 DEF Asks
  <2>2. PICK x \in ArgumentsOf(c, field.rules.add) :
               arg = [value |-> x, sent |-> Sent[field.rules.add][x]]
    BY <1>3 DEF Asks
  <2>3. stored' = Sent[field.rules.add][x] /\ stored' \in Value
    BY <1>3, <2>2, MadeIsValue DEF Held
  <2>4. op = "create" => want = Anything
    BY DEF Refuses, ObjectInv
  <2>5. CASE c = Owner /\ (op = "create" => field.rules.add # "never")
    <3>1. x \in Arguments[field.rules.add] /\ (field.rules.kind = "object" => field.rules.add # "never")
      BY <2>1, <2>5 DEF ArgumentsOf
    <3>2. want' = [op |-> op, value |-> x]
      BY <1>3, <2>2, <2>5 DEF Wanted, TakesAway, Sets
    <3>3. x # "unset"
      <4>1. field.rules.add \in {"never", "always", "given", "truthy", "flag", "on", "off",
                                 "unless", "switch"}
        BY DEF Fits, FitsCreate
      <4> QED
        BY <3>1, <4>1, ArgumentsAre DEF Value, Truth
    <3>4. Alike(Decoded(Sent[field.rules.add][x]), x)
      BY <2>1, <3>1, MadeShows
    <3>5. stored' # "absent"
      BY <2>3 DEF Value, Truth
    <3> QED
      BY <1>3, <2>3, <3>2, <3>3, <3>4, <3>5, NowShows
  <2>6. CASE ~(c = Owner /\ (op = "create" => field.rules.add # "never"))
    <3>1. want' = Anything
      BY <1>3, <2>4, <2>6 DEF Wanted, TakesAway, Sets
    <3> QED
      BY <2>3, <3>1, NothingCounts DEF Value, Truth
  <2> QED
    BY <2>5, <2>6
<1>4. CASE op = "update"
  <2>1. stored # "absent"
    BY <1>4 DEF Refuses
  <2>2. CASE c = Owner /\ arg = [value |-> "unset", sent |-> "unset"]
    <3>1. want' = [op |-> "update", value |-> "unset"] /\ stored' = "none"
      BY <1>4, <2>2 DEF Wanted, TakesAway, Sets, Held, Value, Truth
    <3>2. Shows'
      BY <3>1 DEF Shows
    <3> QED
      BY <3>1, <3>2 DEF ObjectInv, CreatedAsAsked, UpdateHolds
  <2>3. ASSUME NEW x \in ArgumentsOf(c, field.rules.set),
               arg = [value |-> x, sent |-> Sent[field.rules.set][x]]
        PROVE  ObjectInv'
    <3> DEFINE sent == Sent[field.rules.set][x]
    <3>1. sent \in Value => stored' = IF sent = "none" THEN stored ELSE sent
      BY <1>4, <2>3 DEF Held, Value, Truth
    <3>2. CASE c = Owner
      <4>1. x \in Arguments[field.rules.set]
        BY <3>2 DEF ArgumentsOf
      <4>2. CASE x = "none"
        BY <1>4, <2>3, <3>1, <3>2, <4>1, <4>2, ChangeShows, StaysAsItIs
        DEF Wanted, TakesAway, Sets, fieldVars, Value
      <4>3. CASE x # "none"
        <5>1. want' = [op |-> "update", value |-> x]
          BY <1>4, <2>3, <3>2, <4>3 DEF Wanted, TakesAway, Sets
        <5>2. CASE sent \in Value \ {"none"} /\ Alike(Decoded(sent), x)
          <6>1. stored' = sent /\ sent # "absent"
            BY <3>1, <5>2 DEF Value, Truth
          <6>2. x # "unset"
            <7>1. field.rules.set \in {"never", "always", "given", "truthy", "flag", "inverse"}
              BY DEF Fits, FitsUpdate
            <7> QED
              BY <4>1, <7>1, ArgumentsAre DEF Value, Truth
          <6> QED
            BY <5>1, <5>2, <6>1, <6>2, NowShows
        <5>3. CASE /\ field.rules.set = "truthy" /\ x = "falsy" /\ field.name \in NotCleared
                   /\ sent = "none"
          <6>1. stored' = stored
            BY <3>1, <5>3 DEF Value
          <6> QED
            BY <2>1, <5>1, <5>3, <6>1 DEF ObjectInv, CreatedAsAsked, UpdateHolds, NotCleared
        <5> QED
          BY <4>1, <4>3, <5>2, <5>3, ChangeShows
      <4> QED
        BY <4>2, <4>3
    <3>3. CASE c # Owner /\ field.rules.set = "always"
      <4>1. want' = Anything
        BY <1>4, <3>3 DEF Wanted, TakesAway
      <4>2. x \in Value /\ sent = x
        BY <3>3, SentIs DEF ArgumentsOf, Neutral, Value, Truth
      <4> QED
        BY <2>1, <3>1, <4>1, <4>2, NothingCounts DEF Value, Truth
    <3>4. CASE c # Owner /\ field.rules.set # "always"
      <4>1. sent = "none"
        BY <3>4, OthersKeep DEF ArgumentsOf
      <4>2. want' = want
        BY <1>4, <3>4 DEF Wanted, TakesAway, Sets
      <4> QED
        BY <3>1, <4>1, <4>2, StaysAsItIs DEF fieldVars, Value
    <3> QED
      BY <3>2, <3>3, <3>4
  <2> QED
    BY <1>4, <2>2, <2>3 DEF Asks
<1> QED
  BY <1>1, <1>2, <1>3, <1>4 DEF Asks

\* Which requests a field has does not change.
LEMMA AsksSame ==
  ASSUME field' = field, NEW c, NEW op, NEW arg, Asks(c, op, arg)
  PROVE  Asks(c, op, arg)'
<1>1. \A r : ArgumentsOf(c, r) = ArgumentsOf(c, r)'
  BY DEF ArgumentsOf, Arguments
<1> QED
  BY <1>1 DEF Asks

\* The fields followed are fields of the tables.
LEMMA FollowedIsField == Followed \subseteq Fields
<1> SUFFICES ASSUME NEW p0 \in Fields
             PROVE  (CHOOSE p \in Fields : p.rules = p0.rules) \in Fields
  BY DEF Followed
<1> QED
  OBVIOUS

\* What a step makes of the call of one client keeps the requests, as long as it leaves
\* the client no request, the one it had, or one of the helper's.
LEMMA OneCall ==
  ASSUME RequestsInv, field' = field, NEW c \in Clients, CallTypes',
         \A d \in Clients \ {c} : call'[d] = call[d],
         call'[c].pc # "idle" => Asks(c, call'[c].op, call'[c].arg),
         \/ late' = late \/ late' = NotLate
         \/ late'.client = c /\ Asks(c, late'.op, late'.arg)
  PROVE  RequestsInv'
<1>1. \A d \in Clients : call'[d].pc # "idle" => Asks(d, call[d].op, call[d].arg)'
  BY AsksSame DEF RequestsInv
<1>2. late' # NotLate => Asks(late.client, late.op, late.arg)'
  BY AsksSame DEF RequestsInv
<1> QED
  BY <1>1, <1>2 DEF RequestsInv

\* Only an object that is deleted is no longer there.
LEMMA HeldIsThere ==
  ASSUME Fits(field), ObjectInv, NEW c, NEW op, NEW arg, Asks(c, op, arg), ~Refuses(op)
  PROVE  field.rules.kind = "object" \/ Held(op, arg.sent) # "absent"
<1> SUFFICES ASSUME field.rules.kind # "object" PROVE Held(op, arg.sent) # "absent"
  OBVIOUS
<1>1. stored # "absent" /\ op \in {"run", "update", "get"}
  BY DEF ObjectInv, Asks
<1>2. CASE op = "run"
  <2>1. arg.sent \in Value
    BY <1>2, MadeIsValue DEF Asks
  <2> QED
    BY <1>2, <2>1 DEF Held, Value, Truth
<1> QED
  BY <1>1, <1>2 DEF Held, Value, Truth

\* A client that had no request has one of the helper's.
LEMMA RequestSent ==
  ASSUME RequestsInv, NEW c \in Clients, NEW op, NEW arg, Request(c, op, arg), Asks(c, op, arg),
         field' = field
  PROVE  RequestsInv'
<1>1. /\ CallTypes' /\ \A d \in Clients \ {c} : call'[d] = call[d]
      /\ call'[c].op = op /\ call'[c].arg = arg /\ late' = late
  BY DEF Request, RequestsInv, CallTypes
<1> QED
  BY <1>1, OneCall

\* At first nothing was asked, and nothing can be missed.
LEMMA FieldStart == FieldInit => FieldInv
<1> SUFFICES ASSUME FieldInit PROVE FieldInv
  OBVIOUS
<1>1. CallTypes /\ late = NotLate /\ \A c \in Clients : call[c].pc = "idle"
  BY DEF FieldInit, APIInit, CallTypes, NoCall
<1>2. field \in Fields
  BY FollowedIsField DEF FieldInit
<1>3. ObjectInv
  BY DEF FieldInit, ObjectInv, Anything, CreatedAsAsked, UpdateHolds
<1> QED
  BY <1>1, <1>2, <1>3 DEF FieldInv, RequestsInv

\* Every step of the clients and the server keeps what the owner counts on.
LEMMA FieldStep ==
    FieldInv /\ [FieldNext]_<<apiVars, requestVars, fieldVars>> => FieldInv'
<1> SUFFICES ASSUME FieldInv, [FieldNext]_<<apiVars, requestVars, fieldVars>> PROVE FieldInv'
  OBVIOUS
<1> USE DEF FieldInv
<1>0. Fits(field) /\ CallTypes
  BY TablesFit DEF RequestsInv
<1>1. UNCHANGED fieldVars => ObjectInv' /\ field' = field
  BY StaysAsItIs DEF fieldVars
<1>2. ASSUME UNCHANGED <<requestVars, fieldVars>> PROVE FieldInv'
  <2>1. call' = call /\ late' = late /\ field' = field
    BY <1>2 DEF requestVars, fieldVars
  <2>2. CallTypes'
    BY <1>0, <2>1 DEF CallTypes
  <2>3. \A c \in Clients : call'[c].pc # "idle" => Asks(c, call[c].op, call[c].arg)'
    BY <2>1, AsksSame DEF RequestsInv
  <2>4. late' # NotLate => Asks(late.client, late.op, late.arg)'
    BY <2>1, AsksSame DEF RequestsInv
  <2> QED
    BY <1>1, <1>2, <2>1, <2>2, <2>3, <2>4 DEF RequestsInv
<1>3. CASE APINext /\ UNCHANGED fieldVars
  <2>1. UNCHANGED requestVars
    BY <1>3 DEF APINext, Create, Close, CloseAgain, CloseReturns, CloseCancelled
  <2> QED
    BY <1>2, <1>3, <2>1
<1>4. ASSUME NEW c \in Clients,
             CreateField(c) \/ UpdateField(c) \/ UnsetField(c) \/ DeleteObject(c) \/ GetObject(c)
      PROVE  FieldInv'
  <2>1. PICK op, arg : Request(c, op, arg) /\ Asks(c, op, arg)
    <3>1. CASE CreateField(c)
      BY <3>1 DEF CreateField, Asks
    <3>2. CASE UpdateField(c)
      BY <3>2 DEF UpdateField, Asks
    <3>3. CASE UnsetField(c)
      BY <3>3 DEF UnsetField, Asks
    <3>4. CASE DeleteObject(c)
      BY <3>4 DEF DeleteObject, Asks
    <3>5. CASE GetObject(c)
      BY <3>5 DEF GetObject, Asks
    <3> QED
      BY <1>4, <3>1, <3>2, <3>3, <3>4, <3>5
  <2>2. UNCHANGED fieldVars
    BY <1>4 DEF CreateField, UpdateField, UnsetField, DeleteObject, GetObject
  <2> QED
    BY <1>1, <2>1, <2>2, RequestSent
<1>5. ASSUME NEW c \in Clients, Serve(c) PROVE FieldInv'
  <2>1. PICK a : call' = Answer(c, a)
    BY <1>5 DEF Serve
  <2>2. /\ CallTypes' /\ \A d \in Clients \ {c} : call'[d] = call[d]
        /\ call'[c].op = call[c].op /\ call'[c].arg = call[c].arg
    BY <1>0, <2>1, Answered
  <2>3. call[c].pc = "sent" /\ late' = late
    BY <1>5 DEF Serve
  <2>4. Asks(c, call[c].op, call[c].arg)
    BY <2>3 DEF RequestsInv
  <2>5. ObjectInv' /\ field' = field
    <3>1. CASE Refuses(call[c].op)
      BY <1>1, <1>5, <3>1 DEF Serve
    <3>2. CASE ~Refuses(call[c].op)
      <4>1. /\ stored' = Held(call[c].op, call[c].arg.sent) /\ field' = field
            /\ want' = Wanted(c, call[c].op, call[c].arg.value)
        BY <1>5, <3>2 DEF Serve
      <4> QED
        BY <1>0, <2>4, <3>2, <4>1, CarriedOut
    <3> QED
      BY <3>1, <3>2
  <2>6. RequestsInv'
    BY <2>2, <2>3, <2>4, <2>5, OneCall
  <2> QED
    BY <2>5, <2>6
<1>6. ASSUME NEW c \in Clients, Lose(c) \/ Refused(c) \/ Returns(c), UNCHANGED fieldVars
      PROVE  FieldInv'
  <2>1. call[c].pc # "idle" /\ (call' = Again(c) \/ call' = Ended(c))
    BY <1>6 DEF Lose, Refused, Returns
  <2>2. /\ CallTypes' /\ \A d \in Clients \ {c} : call'[d] = call[d]
        /\ \/ call'[c].pc = "idle"
           \/ call'[c].op = call[c].op /\ call'[c].arg = call[c].arg
    BY <1>0, <2>1, TriedAgain
  <2>3. Asks(c, call[c].op, call[c].arg)
    BY <2>1 DEF RequestsInv
  <2>4. \/ late' = late
        \/ late' = [client |-> c, op |-> call[c].op, arg |-> call[c].arg]
    BY <1>6 DEF Lose, Refused, Returns
  <2>5. RequestsInv'
    BY <1>1, <1>6, <2>2, <2>3, <2>4, OneCall
  <2> QED
    BY <1>1, <1>6, <2>5
<1>7. CASE ServeLate
  <2>1. Asks(late.client, late.op, late.arg) /\ call' = call /\ late' = NotLate
    BY <1>7 DEF ServeLate, RequestsInv
  <2>2. ObjectInv' /\ field' = field
    <3>1. CASE Refuses(late.op)
      BY <1>1, <1>7, <3>1 DEF ServeLate
    <3>2. CASE ~Refuses(late.op) /\ late.client = Owner
      <4>1. /\ want' = Anything /\ field' = field
            /\ stored' = Held(late.op, late.arg.sent)
        BY <1>7, <3>2 DEF ServeLate
      <4>2. field.rules.kind = "object" \/ stored' # "absent"
        BY <1>0, <2>1, <3>2, <4>1, HeldIsThere
      <4> QED
        BY <4>1, <4>2, NothingCounts
    <3>3. CASE ~Refuses(late.op) /\ late.client # Owner
      <4>1. /\ stored' = Held(late.op, late.arg.sent) /\ field' = field
            /\ want' = Wanted(late.client, late.op, late.arg.value)
        BY <1>7, <3>3 DEF ServeLate
      <4> QED
        BY <1>0, <2>1, <3>3, <4>1, CarriedOut
    <3> QED
      BY <3>1, <3>2, <3>3
  <2>3. CallTypes'
    BY <1>0, <2>1 DEF CallTypes
  <2>4. \A c \in Clients : call'[c].pc # "idle" => Asks(c, call[c].op, call[c].arg)'
    BY <2>1, <2>2, AsksSame DEF RequestsInv
  <2>5. RequestsInv'
    BY <1>0, <2>1, <2>2, <2>3, <2>4 DEF RequestsInv
  <2> QED
    BY <2>2, <2>5
<1> QED
  BY <1>2, <1>3, <1>4, <1>5, <1>6, <1>7 DEF FieldNext

\* The invariant of a field holds in every reachable state.
THEOREM FieldCorrect == FieldSpec => []FieldInv
  BY FieldStart, FieldStep, PTL DEF FieldSpec

\* What was created with a value, or told with an option, has it, in whatever order
\* requests are served, repeated and lost, for any number of clients.
THEOREM CreatedValuesShow == FieldSpec => []CreatedAsAsked
<1>1. FieldInv => CreatedAsAsked
  BY DEF FieldInv, ObjectInv
<1> QED
  BY <1>1, FieldCorrect, PTL

\* What the owner changed stays, whatever the others update meanwhile.
THEOREM ChangesHold == FieldSpec => []UpdateHolds
<1>1. FieldInv => UpdateHolds
  BY DEF FieldInv, ObjectInv
<1> QED
  BY <1>1, FieldCorrect, PTL

=============================================================================
