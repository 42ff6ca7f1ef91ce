---------------------------- MODULE NodeFields ------------------------------
(* NodeManager of proxmoxer/helpers/nodes.py *)
EXTENDS HelperFields

\* The keyword arguments go into the request as they are.
NetworkInterfaceRead ==
    Required({"iface", "type"})
    ++ Plain({"active", "autostart", "bridge_vlan_aware", "exists", "address", "address6",
              "bridge_ports", "bridge_stp", "cidr", "cidr6", "comments", "comments6", "families",
              "gateway", "gateway6", "method", "method6", "netmask", "options", "priority",
              "slaves"})

NetworkInterface ==
    Object("NetworkInterface",
        Always({"iface", "type", "kwargs"}) ++ Flag({"autostart", "bridge_vlan_aware"})
        ++ Truthy({"address", "netmask", "gateway", "bridge_ports"}),
        Flag({"autostart"}) ++ Given({"kwargs"})
        ++ Truthy({"address", "netmask", "gateway", "bridge_ports", "comments"}),
        NetworkInterfaceRead, {})

SnapshotRead == Required({"name"}) ++ Plain({"snaptime", "description", "parent"})
                ++ FlagOff({"vmstate"})

Snapshot ==
    Listed("Snapshot", Always({"snapname"}) ++ Truthy({"description"}) ++ On({"vmstate"}),
        NoFields, SnapshotRead)

DeleteSnapshot == Command("delete_snapshot", On({"force"}))

RollbackSnapshot == Command("rollback_snapshot", NoFields)

-----------------------------------------------------------------------------
(* Virtual machines and containers *)

VMRead ==
    Required({"vmid"}) ++ Default({"type"}) ++ FlagOff({"template", "serial"})
    ++ Plain({"name", "status", "node", "uptime", "cpu", "cpus", "mem", "maxmem", "disk",
              "maxdisk", "netin", "netout", "diskread", "diskwrite", "lock", "tags", "memhost",
              "pid", "qmpstatus", "running-machine", "running-qemu", "maxswap",
              "pressurecpufull", "pressurecpusome", "pressureiofull", "pressureiosome",
              "pressurememoryfull", "pressurememorysome"})

\* A configuration is made, changed and read as it is; get_vm reads the status.
VM ==
    Object("VM", Always({"vmid"}) ++ Given({"config"}), Given({"config"}), VMRead,
        {"vmid", "type", "node"})

DeleteVM == Command("delete_vm", On({"purge", "destroy-unreferenced-disks"}))

StopVM == Command("shutdown_vm, reboot_vm", Always({"timeout"}))

CloneVM == Command("clone_vm", Always({"newid"}) ++ Truthy({"name", "target", "pool"}) ++ On({"full"}))

MigrateVM == Command("migrate_vm", Always({"target"}) ++ On({"online", "with-local-disks"}))

BackupVM ==
    Command("backup_vm", Always({"vmid", "storage", "mode", "compress"}) ++ On({"remove"})
                         ++ Truthy({"notes"}))

StartVM == Command("start_vm, stop_vm", NoFields)

ResetVM == Command("reset_vm, suspend_vm, resume_vm", NoFields)

-----------------------------------------------------------------------------
(* The agent of a virtual machine *)

ExecRead ==
    Required({"pid"})
    ++ Plain({"exited", "exitcode", "signal", "out-data", "err-data", "out-truncated",
              "err-truncated"})

AgentExec ==
    Query("agent_exec", Always({"command"}) ++ Truthy({"input-data"}), ExecRead)

AgentExecStatus == Query("agent_exec_status", Always({"pid"}), ExecRead)

AgentShutdown == Command("agent_shutdown", NoFields)

AgentInfo == Query("QemuAgentInfo", NoFields, Required({"version"}) ++ Plain({"supported-commands"}))

AgentOSInfo ==
    Query("QemuAgentOSInfo", NoFields,
        Plain({"id", "kernel-release", "kernel-version", "machine", "name", "pretty-name",
               "version", "version-id"}))

AgentFSInfo ==
    Query("QemuAgentFSInfo", NoFields,
        Required({"name", "mountpoint"}) ++ Plain({"disk", "total-bytes", "used-bytes", "type"}))

-----------------------------------------------------------------------------
(* The node itself *)

NodeStatus ==
    Query("NodeStatus", NoFields,
        Required({"boot-info", "cpuinfo", "current-kernel", "memory", "rootfs", "cpu", "loadavg",
                  "pveversion"}))

NodeVersionRead == Required({"release", "repoid", "version"})

NodeVersion == Query("NodeVersion", NoFields, NodeVersionRead)

NetworkConfiguration ==
    Command("reload_network_configuration, revert_network_configuration", NoFields)

PowerNode == Command("reboot_node, shutdown_node", Always({"command"}))

NodeTime == Single("NodeTime", Always({"timezone"}), Required({"localtime", "timezone"}))

ServiceRead == Required({"name"}) ++ Plain({"state", "desc"})

Services == Entries("list_services", NoFields, ServiceRead)

ServiceState == Query("get_service_state", NoFields, ServiceRead)

ServiceCommand ==
    Command("start_service, stop_service, restart_service, reload_service", NoFields)

StorageContentRead ==
    Required({"volid"}) ++ Plain({"format", "content", "vmid", "ctime"}) ++ Default({"size"})

StorageContent ==
    Entries("list_storage_content", Truthy({"content", "vmid"}), StorageContentRead)

ListTasks == Command("list_tasks", Truthy({"vmid", "limit"}) ++ On({"errors"}))

CertificateRead ==
    Required({"filename"})
    ++ Plain({"fingerprint", "issuer", "notafter", "notbefore", "pem", "public-key-bits",
              "public-key-type", "san", "subject"})

ACMECertificate == Command("order_acme_certificate, renew_acme_certificate", On({"force"}))

CustomCertificate ==
    Entries("upload_custom_certificate",
        Always({"certificates"}) ++ Truthy({"key"}) ++ On({"force", "restart"}), CertificateRead)

CertificatesInfo == Entries("get_certificates_info", NoFields, CertificateRead)

DeleteCertificate == Command("delete_custom_certificate", On({"restart"}))

APTUpdateRead ==
    Required({"Package", "Title", "Arch", "Description", "Version"})
    ++ Plain({"OldVersion", "Priority", "Section", "ChangeLogUrl", "Origin"})

APTUpdates == Entries("list_apt_updates", NoFields, APTUpdateRead)

UpdateAPT == Command("update_apt_database", On({"notify", "quiet"}))

Changelog == Command("get_package_changelog", Always({"name"}) ++ Truthy({"version"}))

AddRepository == Command("add_apt_repository", Always({"handle"}) ++ Truthy({"digest"}))

ChangeRepository ==
    Command("change_apt_repository", Always({"index"}) ++ Truthy({"digest"}) ++ Flag({"enabled"}))

SubscriptionRead ==
    Required({"status"})
    ++ Plain({"checktime", "key", "level", "nextduedate", "productname", "regdate", "url"})

\* set_subscription_key writes the key; update_subscription asks for it to be checked.
Subscription == Single("Subscription", Always({"key"}), SubscriptionRead)

UpdateSubscription == Command("update_subscription", On({"force"}))

NodeFamilies ==
    {NetworkInterface, Snapshot, DeleteSnapshot, RollbackSnapshot, VM, DeleteVM, StopVM, StartVM,
     ResetVM, CloneVM, MigrateVM, BackupVM, AgentExec, AgentExecStatus, AgentShutdown, AgentInfo,
     AgentOSInfo, AgentFSInfo, NodeStatus, NodeVersion, NetworkConfiguration, PowerNode, NodeTime,
     Services, ServiceState, ServiceCommand, StorageContent, ListTasks, ACMECertificate,
     CustomCertificate, DeleteCertificate, CertificatesInfo, APTUpdates, UpdateAPT, Changelog,
     AddRepository, ChangeRepository, Subscription, UpdateSubscription}

=============================================================================
