----------------------------- MODULE CephFields -----------------------------
(* CephManager of proxmoxer/helpers/ceph.py and DiskManager of               *)
(* proxmoxer/helpers/disks.py: what they make is read as the server sees it, *)
(* and changed only by the settings of a pool.                               *)
EXTENDS HelperFields

CephPoolRead ==
    Default({"pool", "pool_name", "size", "min_size", "pg_num", "type"})
    ++ Plain({"bytes_used", "percent_used", "pg_autoscale_mode", "pg_num_final", "pg_num_min",
              "target_size", "target_size_ratio", "crush_rule", "crush_rule_name", "application",
              "application_metadata", "autoscale_status"})

CephPool ==
    Object("CephPool",
        Always({"name", "size", "min_size", "pg_num", "pg_autoscale_mode", "application"})
        ++ Truthy({"crush_rule"}) ++ On({"add_storages"}),
        Given({"size", "min_size", "pg_num", "pg_autoscale_mode", "crush_rule"}),
        CephPoolRead, {})

DestroyPool == Command("destroy_pool", On({"force"}))

CephFSRead == Plain({"name", "data_pool", "metadata_pool"})

ListCephFS == Entries("list_cephfs", NoFields, CephFSRead)

CephFS == Command("create_cephfs", Always({"name", "pg_num"}) ++ On({"add-storage"}))

InitCeph ==
    Command("init_ceph", Always({"network", "size", "min_size"}) ++ Truthy({"cluster-network"}))

StartStopCeph == Command("start_ceph, stop_ceph", Truthy({"service"}))

OSDRead ==
    Plain({"id", "osdid", "status", "host", "device_class"}) ++ Default({"weight", "reweight"})
    ++ FlagOn({"in", "up"})

ListOSDs == Entries("list_osds", NoFields, OSDRead)

OSD ==
    Command("create_osd", Always({"dev"}) ++ On({"encrypted"})
                          ++ Truthy({"db_dev", "wal_dev", "crush-device-class"}))

DestroyOSD == Command("destroy_osd", On({"cleanup"}))

MarkOSD == Command("osd_in, osd_out", NoFields)

MonRead ==
    Plain({"name", "addr", "host", "rank", "ceph_version", "ceph_version_short", "direxists",
           "quorum", "service"}) ++ FlagOn({"in_quorum"})

ListMonitors == Entries("list_monitors", NoFields, MonRead)

Monitor == Command("create_monitor", Truthy({"mon-address"}))

MgrRead == Plain({"name", "addr"}) ++ FlagOff({"active"})

ListManagers == Entries("list_managers", NoFields, MgrRead)

Managers == Command("create_manager, destroy_manager", NoFields)

MDSRead == Plain({"name", "addr", "rank", "state", "standby_replay"})

ListMDS == Entries("list_mds", NoFields, MDSRead)

MDS == Command("create_mds", On({"hotstandby"}))

Destroyed == Command("destroy_monitor, destroy_mds", NoFields)

Flags == Command("set_flag, unset_flag", NoFields)

CephLog == Command("get_log", Always({"start", "limit"}))

-----------------------------------------------------------------------------
DiskRead ==
    Plain({"devpath", "model", "serial", "vendor", "wwn", "health", "type", "rpm", "wearout",
           "used", "osdid", "osdid-list", "mounted", "parent"}) ++ Default({"size"})

ListDisks ==
    Entries("list_disks", On({"include-partitions", "skipsmart"}) ++ Truthy({"type"}), DiskRead)

SMARTRead == Default({"health"}) ++ Plain({"type", "attributes", "text"})

SMART == Query("get_smart_info", Always({"disk"}) ++ On({"healthonly"}), SMARTRead)

LVMRead == Plain({"vg", "name", "children"}) ++ Default({"size", "free"})

ListLVM == Entries("list_lvm", NoFields, LVMRead)

LVM == Command("create_lvm", Always({"name", "device"}) ++ On({"add_storage"}))

DeleteLVM == Command("delete_lvm", Always({"name"}) ++ On({"cleanup-disks"}))

LVMThin == Command("create_lvmthin", Always({"name", "device"}) ++ On({"add_storage"}))

DeleteLVMThin == Command("delete_lvmthin", Always({"volume-group"}) ++ On({"cleanup-disks"}))

ZFSRead == Plain({"name", "frag", "dedup", "health"}) ++ Default({"size", "free", "alloc"})

ListZFS == Entries("list_zfs", NoFields, ZFSRead)

GetZFS == Query("get_zfs", NoFields, ZFSRead)

ZFS ==
    Command("create_zfs", Always({"name", "devices", "raidlevel", "ashift"})
                          ++ Truthy({"compression"}) ++ On({"add_storage"}))

DeleteZFS == Command("delete_zfs", On({"cleanup-disks"}))

DirectoryRead == Plain({"path", "device", "options", "type", "unitfile"})

ListDirectories == Entries("list_directories", NoFields, DirectoryRead)

Directory ==
    Command("create_directory", Always({"name", "device", "filesystem"}) ++ On({"add_storage"}))

DeleteDirectory == Command("delete_directory", On({"cleanup-disks"}))

CephFamilies ==
    {CephPool, DestroyPool, ListCephFS, CephFS, InitCeph, StartStopCeph, ListOSDs, OSD, DestroyOSD,
     MarkOSD, ListMonitors, Monitor, ListManagers, Managers, ListMDS, MDS, Destroyed, Flags, CephLog, ListDisks, SMART,
     ListLVM, LVM, DeleteLVM, LVMThin, DeleteLVMThin, ListZFS, GetZFS, ZFS, DeleteZFS,
     ListDirectories, Directory, DeleteDirectory}

=============================================================================
