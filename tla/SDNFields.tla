----------------------------- MODULE SDNFields ------------------------------
(* SDNManager of proxmoxer/helpers/sdn.py *)
EXTENDS HelperFields

VNetRead == Required({"vnet", "zone"}) ++ Plain({"alias", "tag"}) ++ FlagOff({"vlanaware"})

VNet ==
    Object("VNet",
        Always({"vnet", "zone"}) ++ Truthy({"alias"}) ++ Given({"tag"}) ++ On({"vlanaware"}),
        Given({"alias", "tag", "zone"}) ++ Flag({"vlanaware"}) ++ Truthy({"delete"}),
        VNetRead, {"vnet"})

SubnetRead ==
    Plain({"subnet", "gateway", "dhcp-range", "dhcp-dns-server"}) ++ Default({"type"})
    ++ FlagOff({"snat"})

Subnet ==
    Listed("Subnet",
        Always({"subnet", "type"}) ++ Truthy({"gateway", "dhcp-range", "dhcp-dns-server"})
        ++ On({"snat"}),
        NoFields, SubnetRead)

ZoneRead ==
    Required({"zone", "type"})
    ++ Plain({"bridge", "nodes", "mtu", "ipam", "dns", "dnszone", "reversedns", "pending", "state"})

\* The options a zone or controller method is given besides go into the request
\* as they are.
Zone ==
    Object("Zone",
        Always({"zone", "type", "options"}) ++ Truthy({"bridge", "nodes", "mtu", "ipam", "dns"}),
        Given({"bridge", "nodes", "mtu", "ipam", "dns", "options"}) ++ Truthy({"delete"}),
        ZoneRead, {"zone"})

ControllerRead ==
    Required({"controller", "type"}) ++ Plain({"asn", "peers", "pending", "state"})
    ++ FlagOff({"bgp-multipath-as-path-relax"})

Controller ==
    Object("Controller",
        Always({"controller", "type", "options"}) ++ Given({"asn"}) ++ Truthy({"peers"}),
        Given({"asn", "peers", "options"}) ++ Truthy({"delete"}),
        ControllerRead, {"controller"})

IPAMRead == Required({"ipam", "type"}) ++ Plain({"url", "token", "section"})

IPAM ==
    Object("IPAM",
        Always({"ipam", "type"}) ++ Truthy({"url", "token", "section"}),
        Given({"url", "token", "section"}) ++ Truthy({"delete"}),
        IPAMRead, {"ipam"})

DNSRead == Required({"dns", "url"}) ++ Plain({"key", "reversemaskv6"})

DNS ==
    Object("DNS",
        Always({"dns", "url"}) ++ Truthy({"key"}) ++ Given({"reversemaskv6"}),
        Given({"url", "key", "reversemaskv6"}) ++ Truthy({"delete"}),
        DNSRead, {"dns"})

\* Changes are pending until they are applied; the requests here do not wait for it.
ReloadSDN == Command("reload_sdn", NoFields)

SDNFamilies == {VNet, Subnet, Zone, Controller, IPAM, DNS, ReloadSDN}

=============================================================================
