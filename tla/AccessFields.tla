---------------------------- MODULE AccessFields ----------------------------
(* AccessManager of proxmoxer/helpers/access.py *)
EXTENDS HelperFields

UserRead ==
    Required({"userid"}) ++ FlagOn({"enable"})
    ++ Plain({"email", "firstname", "lastname", "groups", "expire", "comment", "keys",
              "tokens", "realm-type", "tfa-locked-until", "totp-locked"})

User ==
    Object("User",
        Always({"userid"}) ++ Off({"enable"})
        ++ Truthy({"password", "email", "firstname", "lastname", "groups", "expire", "comment", "keys"}),
        Given({"email", "firstname", "lastname", "groups", "expire", "comment", "keys"})
        ++ Flag({"enable"}),
        UserRead, {})

ListUsers == Entries("list_users", Flag({"enabled"}), UserRead)

GroupRead == Required({"groupid"}) ++ Plain({"comment", "users"})

Group ==
    Object("Group", Always({"groupid"}) ++ Truthy({"comment"}), Given({"comment"}), GroupRead, {})

RoleRead == Required({"roleid"}) ++ Plain({"privs"}) ++ FlagOff({"special"})

Role ==
    Object("Role", Always({"roleid"}) ++ Truthy({"privs"}), Given({"privs"}) ++ On({"append"}),
        RoleRead, {})

ACLRead == Required({"path", "roleid", "type", "ugid"}) ++ FlagOn({"propagate"})

\* update_acl grants and, with delete, withdraws.
ACL ==
    [Command("ACL", Always({"path", "roles"}) ++ Truthy({"users", "groups"})
                    ++ Off({"propagate"}) ++ On({"delete"}))
     EXCEPT !.read = ACLRead]

APITokenRead == Plain({"tokenid", "userid", "comment", "expire"}) ++ FlagOn({"privsep"})

APIToken ==
    Listed("APIToken", Always({"tokenid"}) ++ Truthy({"comment", "expire"}) ++ Off({"privsep"}),
        Given({"comment", "expire"}) ++ Flag({"privsep"}), APITokenRead)

DomainRead == Required({"realm", "type"}) ++ Plain({"comment", "tfa"}) ++ FlagOff({"default"})

Domain == Query("get_domain", NoFields, DomainRead)

-----------------------------------------------------------------------------
Password == Command("set_password", Always({"password"}))

Permissions == Command("get_permissions", Truthy({"userid", "path"}))

TFA == Command("list_tfa, unlock_tfa", NoFields)

AccessFamilies ==
    {User, ListUsers, Group, Role, ACL, APIToken, Domain, Password, Permissions, TFA}

=============================================================================
