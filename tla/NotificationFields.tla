------------------------- MODULE NotificationFields -------------------------
(* NotificationManager of proxmoxer/helpers/notifications.py *)
EXTENDS HelperFields

EndpointRead == Plain({"name", "type", "comment"}) ++ FlagOff({"disable"})

\* Lists are joined with commas on their way out and split on their way in.
SMTPRead ==
    Plain({"name", "comment", "server", "username", "mailto", "mailto-user", "from-address"})
    ++ FlagOff({"disable"}) ++ Default({"port"})

GotifyRead == Plain({"name", "comment", "server", "token"}) ++ FlagOff({"disable"})

Sendmail ==
    Listed("sendmail",
        Always({"name"}) ++ Truthy({"mailto", "mailto-user", "from-address", "comment"})
        ++ On({"disable"}),
        NoFields, EndpointRead)

SMTP ==
    Listed("smtp",
        Always({"name", "server", "port"}) ++ On({"disable"})
        ++ Truthy({"mailto", "mailto-user", "username", "password", "from-address", "author",
                   "comment"}),
        NoFields, SMTPRead)

SMTPUpdate ==
    Single("smtp settings",
        Given({"server", "port", "mailto", "username", "password", "from-address", "comment"})
        ++ Flag({"disable"}) ++ Truthy({"delete"}),
        SMTPRead)

Gotify ==
    Listed("gotify",
        Always({"name", "server", "token"}) ++ Truthy({"comment"}) ++ On({"disable"}),
        NoFields, GotifyRead)

Webhook ==
    Listed("webhook",
        Always({"name", "url", "method"}) ++ Truthy({"header", "body", "secret", "comment"})
        ++ On({"disable"}),
        NoFields, EndpointRead)

MatcherRead ==
    Plain({"name", "comment", "target", "match-field", "match-severity", "match-calendar"})
    ++ Default({"mode"}) ++ FlagOff({"invert-match", "disable"})

Matcher ==
    Object("NotificationMatcher",
        Always({"name", "target", "mode"}) ++ On({"invert-match", "disable"})
        ++ Truthy({"match-field", "match-severity", "match-calendar", "comment"}),
        Given({"target", "mode", "match-field", "match-severity", "match-calendar", "comment"})
        ++ Flag({"invert-match", "disable"}) ++ Truthy({"delete"}),
        MatcherRead, {"name"})

TargetRead == Plain({"name", "endpoints", "comment", "origin", "type"}) ++ FlagOff({"disable"})

ListTargets == Entries("list_targets", NoFields, TargetRead)

TestEndpoint == Command("test_endpoint", NoFields)

NotificationFamilies ==
    {ListTargets, TestEndpoint, Sendmail, SMTP, SMTPUpdate, Gotify, Webhook, Matcher}

=============================================================================
