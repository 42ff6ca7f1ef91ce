--------------------------- MODULE FirewallFields ---------------------------
(* FirewallManager of proxmoxer/helpers/firewall.py.  Rules have no name: the *)
(* module FirewallRules has the list they stand in.                         *)
EXTENDS HelperFields

FirewallOptionsRead ==
    FlagOff({"enable", "dhcp", "ipfilter", "macfilter", "ndp", "radv"})
    ++ Plain({"log_level_in", "log_level_out"}) ++ Default({"policy_in", "policy_out"})

FirewallOptions ==
    Single("FirewallOptions",
        Flag({"enable", "dhcp", "ipfilter", "macfilter", "ndp", "radv"})
        ++ Given({"log_level_in", "log_level_out", "policy_in", "policy_out"}),
        FirewallOptionsRead)

EnableFirewall == Command("enable, disable", Switch({"enable"}))

AliasRead == Required({"name", "cidr"}) ++ Plain({"comment", "digest"})

Alias ==
    Object("FirewallAlias", Always({"name", "cidr"}) ++ Truthy({"comment"}),
        Always({"cidr"}) ++ Truthy({"comment"}), AliasRead, {})

IPSetRead == Required({"name"}) ++ Plain({"comment", "digest"})

IPSet == Listed("FirewallIPSet", Always({"name"}) ++ Truthy({"comment"}), NoFields, IPSetRead)

IPSetEntryRead == Required({"cidr"}) ++ FlagOff({"nomatch"}) ++ Plain({"comment", "digest"})

IPSetEntry ==
    Listed("FirewallIPSetEntry", Always({"cidr"}) ++ Truthy({"comment"}) ++ On({"nomatch"}),
        Given({"comment"}) ++ Flag({"nomatch"}), IPSetEntryRead)

RuleRead ==
    Required({"action", "type"}) ++ FlagOn({"enable"})
    ++ Plain({"comment", "dest", "dport", "icmp-type", "iface", "ipversion", "log", "macro",
              "pos", "proto", "source", "sport"})

\* FirewallRule.to_dict, which add_rule and update_rule both send.  The ports are made
\* strings before they are tested, so that a port of 0 is sent as "0".
RuleSent ==
    Always({"action", "type"}) ++ Switch({"enable"}) ++ Given({"dport", "sport"})
    ++ Truthy({"comment", "dest", "icmp-type", "iface", "ipversion", "log", "macro", "proto",
               "source"})

\* What else a rule is: add_rule and update_rule send all of it.
Rule == [Command("add_rule, update_rule", RuleSent) EXCEPT !.read = RuleRead]

-----------------------------------------------------------------------------
LogRead == Required({"n", "t"})

FirewallLog ==
    Entries("get_log", Given({"limit", "start", "since", "until"}), LogRead)

RefRead == Required({"name", "type", "ref", "scope"}) ++ Plain({"comment"})

FirewallRefs == Entries("get_refs", Given({"type"}), RefRead)

FirewallFamilies ==
    {FirewallOptions, EnableFirewall, Alias, IPSet, IPSetEntry, Rule, FirewallLog, FirewallRefs}

=============================================================================
