--------------------------- MODULE ClusterFields ----------------------------
(* ClusterManager of proxmoxer/helpers/cluster.py *)
EXTENDS HelperFields

HAResourceRead ==
    Required({"sid"}) ++ Default({"state", "max_restart", "max_relocate"})
    ++ Plain({"group", "comment"})

HAResource ==
    Object("HAResource",
        Always({"sid", "state"}) ++ Truthy({"group", "comment"})
        ++ Unless({"max_restart", "max_relocate"}),
        Given({"state", "group", "max_restart", "max_relocate", "comment"}) ++ Truthy({"delete"}),
        HAResourceRead, {})

HAGroupRead ==
    Required({"group", "nodes"}) ++ FlagOff({"nofailback", "restricted"}) ++ Plain({"comment"})

HAGroup ==
    Object("HAGroup",
        Always({"group", "nodes"}) ++ On({"nofailback", "restricted"}) ++ Truthy({"comment"}),
        Given({"nodes", "comment"}) ++ Flag({"nofailback", "restricted"}) ++ Truthy({"delete"}),
        HAGroupRead, {})

\* A resource is moved to another node.
MoveHAResource == Command("migrate_ha_resource, relocate_ha_resource", Always({"node"}))

HAStatus == Command("get_ha_status", NoFields)

-----------------------------------------------------------------------------
BackupJobRead ==
    Required({"id"}) ++ FlagOn({"enabled"}) ++ FlagOff({"all"})
    ++ Default({"mode", "compress", "mailnotification"})
    ++ Plain({"schedule", "storage", "vmid", "node", "mailto", "prune-backups", "comment"})

BackupJob ==
    Object("BackupJob",
        Always({"id", "schedule", "storage", "mode", "compress"})
        ++ Truthy({"vmid", "node", "mailto", "prune-backups", "comment"})
        ++ On({"all"}) ++ Off({"enabled"}) ++ Unless({"mailnotification"}),
        Given({"schedule", "storage", "vmid", "node", "mode", "compress", "mailnotification",
               "mailto", "prune-backups", "comment"})
        ++ Flag({"all", "enabled"}) ++ Truthy({"delete"}),
        BackupJobRead, {})

ReplicationJobRead ==
    Required({"id", "target", "guest"}) ++ Default({"type", "schedule"}) ++ FlagOff({"disable"})
    ++ Plain({"rate", "source", "comment"})

ReplicationJob ==
    Object("ReplicationJob",
        Always({"id", "target", "type"}) ++ Unless({"schedule"}) ++ On({"disable"})
        ++ Truthy({"rate", "source", "comment"}),
        Given({"schedule", "rate", "comment"}) ++ Flag({"disable"}) ++ Truthy({"delete"}),
        ReplicationJobRead, {})

DeleteReplicationJob == Command("delete_replication_job", On({"force", "keep"}))

-----------------------------------------------------------------------------
\* The address is sent as "contact", and read from "email".
ACMEAccountRead == Plain({"name", "email", "directory", "tos_url"})

ACMEAccount ==
    Object("ACMEAccount", Always({"name", "contact"}) ++ Truthy({"directory"}),
        Always({"contact"}), ACMEAccountRead, {})

ACMETerms == Command("get_acme_tos", Truthy({"directory"}))

ACMELists == Command("list_acme_directories, list_acme_plugins", NoFields)

\* get_options gives the answer as it is.
Options ==
    Single("cluster options",
        Given({"bwlimit", "console", "crs", "description", "email_from", "fencing", "ha",
               "http_proxy", "keyboard", "language", "mac_prefix", "max_workers", "migration",
               "next_id", "notify", "tag-style"})
        ++ Truthy({"delete"}),
        NoFields)

-----------------------------------------------------------------------------
ClusterStatus == Command("get_status", NoFields)

ClusterResourceRead ==
    Plain({"id", "type", "status", "node", "cpu", "maxcpu", "mem", "maxmem", "disk", "maxdisk",
           "name", "uptime", "cgroup-mode", "level", "content", "plugintype", "storage",
           "diskread", "diskwrite", "hastate", "lock", "memhost", "netin", "netout", "pool",
           "tags", "vmid", "template", "pressurecpufull", "pressurecpusome", "pressureiofull",
           "pressureiosome", "pressurememoryfull", "pressurememorysome"})

ClusterResources ==
    Entries("list_resources", Truthy({"type"}), ClusterResourceRead)

NextVMID == Command("get_next_vmid", Truthy({"vmid"}))

ClusterFamilies ==
    {HAResource, HAGroup, BackupJob, ReplicationJob, DeleteReplicationJob, ACMEAccount,
     ACMETerms, ACMELists, Options, MoveHAResource, HAStatus, ClusterStatus, ClusterResources, NextVMID}

=============================================================================
