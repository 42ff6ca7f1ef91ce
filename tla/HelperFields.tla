---------------------------- MODULE HelperFields ----------------------------
(***************************************************************************)
(* What the helper classes of proxmoxer/helpers do with the parameters of  *)
(* their methods: by which rule one gets into a request, and how a key of  *)
(* an answer is read into a field of a dataclass.  The modules that extend *)
(* this one list, helper by helper, the objects of the API with the rules  *)
(* of their fields.                                                        *)
(*                                                                         *)
(* A value is "none" (None, or a key that is not there), "falsy" (0, "",   *)
(* False, an empty list), or one of two others.                            *)
(***************************************************************************)
Truth == {"v1", "v2"}
Value == {"none", "falsy"} \union Truth

\* mutant: what is falsy is filtered out of the request like None
SentOnlyTruth ==
    LET same == [x \in Value |-> IF x \in Truth THEN x ELSE "none"]
        one  == [x \in Value |-> IF x \in Truth THEN "v1" ELSE "none"]
        none == [x \in Value |-> "none"]
    IN  [always |-> same, given |-> same, flag |-> same, truthy |-> same, switch |-> one,
         on |-> one, off |-> none, unless |-> [x \in Value |-> IF x = "v2" THEN x ELSE "none"],
         inverse |-> [x \in Value |-> IF x = "falsy" THEN "v1" ELSE "none"], never |-> none]

\* Rule of a parameter x: what of it the request holds.  "unless" stands for a
\* test against the default of the parameter, here "v1".  None is filtered out of
\* the request by ProxmoxResource._request.
Sent ==
    [ always  |-> [x \in Value |-> x],                                          \* params = {..: x}
      switch  |-> [x \in Value |-> IF x \in Truth THEN "v1" ELSE "falsy"],     \* 1 if x else 0
      given   |-> [x \in Value |-> x],                                          \* if x is not None
      flag    |-> [x \in Value |-> x],                                          \* given, 1 if x else 0
      truthy  |-> [x \in Value |-> IF x \in Truth THEN x ELSE "none"],          \* if x: .. = x
      on      |-> [x \in Value |-> IF x \in Truth THEN "v1" ELSE "none"],       \* if x: .. = 1
      off     |-> [x \in Value |-> IF x \in Truth THEN "none" ELSE "falsy"],    \* if not x: .. = 0
      unless  |-> [x \in Value |-> IF x = "v1" THEN "none" ELSE x],             \* if x != "v1"
      inverse |-> [none |-> "none", falsy |-> "v1", v1 |-> "falsy", v2 |-> "falsy"],
      never   |-> [x \in Value |-> "none"] ]

\* How from_dict reads a key whose value is x.  A default that is not falsy is
\* "v1" too.
Read ==
    [ plain    |-> [x \in Value |-> x],                                   \* data.get(k)
      required |-> [x \in Value |-> x],                                   \* data[k]
      flagOff  |-> [x \in Value |-> IF x = "none" THEN "falsy" ELSE x],   \* bool(data.get(k, 0))
      flagOn   |-> [x \in Value |-> IF x = "none" THEN "v1" ELSE x],      \* bool(data.get(k, 1))
      default  |-> [x \in Value |-> IF x = "none" THEN "v1" ELSE x],      \* data.get(k, "v1")
      inverse  |-> [x \in Value |-> IF x \in Truth THEN "falsy" ELSE "v1"],
      unread   |-> [x \in Value |-> x] ]

-----------------------------------------------------------------------------
(* Notation for the tables *)

By(rule, keys) == [k \in keys |-> rule]

\* The keys of both tables; where they share one, the rule of the first.  It is what
\* the @@ of TLC does, of which the provers know nothing.
f ++ g == [k \in DOMAIN f \union DOMAIN g |-> IF k \in DOMAIN f THEN f[k] ELSE g[k]]

Always(keys)  == By("always", keys)
Switch(keys)  == By("switch", keys)
Given(keys)   == By("given", keys)
Flag(keys)    == By("flag", keys)
Truthy(keys)  == By("truthy", keys)
On(keys)      == By("on", keys)
Off(keys)     == By("off", keys)
Unless(keys)  == By("unless", keys)
Inverted(keys) == By("inverse", keys)

Required(keys)  == By("required", keys)
Plain(keys)     == By("plain", keys)
FlagOff(keys)   == By("flagOff", keys)
FlagOn(keys)    == By("flagOn", keys)
Default(keys)   == By("default", keys)

NoFields == By("never", {})

\* Objects of the API: with a name and methods to create, update, read and delete
\* them, where the method that reads one adds the keys "fills" to the answer;
\* those a method lists but none reads by name; and single ones that always exist.
\* The form is that of the answer the method decodes: one object, a list whose
\* entries are decoded each, or any, when the answer is given as it is.
Object(name, add, set, read, fills) ==
    [name |-> name, kind |-> "object", add |-> add, set |-> set, read |-> read,
     form |-> "one", fills |-> fills]

Listed(name, add, set, read) ==
    [name |-> name, kind |-> "object", add |-> add, set |-> set, read |-> read,
     form |-> "each", fills |-> {}]

Single(name, set, read) ==
    [name |-> name, kind |-> "single", add |-> NoFields, set |-> set, read |-> read,
     form |-> "one", fills |-> {}]

\* A request that makes the server do or tell something, with options.
Asked(name, form, options, read) ==
    [name |-> name, kind |-> "command", add |-> options, set |-> NoFields, read |-> read,
     form |-> form, fills |-> {}]

Query(name, options, read)   == Asked(name, "one", options, read)
Entries(name, options, read) == Asked(name, "each", options, read)
Command(name, options)       == Asked(name, "any", options, NoFields)

RuleOf(rules, key, otherwise) == IF key \in DOMAIN rules THEN rules[key] ELSE otherwise

\* Keys that tell the server how to apply the others; it does not store them.
Modifier == {"delete", "append"}

KeysOf(family) == (DOMAIN family.add \union DOMAIN family.set) \ Modifier

\* Keys without which from_dict raises KeyError.
Needs(family) == {k \in DOMAIN family.read : family.read[k] = "required"}

=============================================================================
