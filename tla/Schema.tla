------------------------------- MODULE Schema -------------------------------
(***************************************************************************)
(* The migrations of this release (app/services/migrations.py): for each   *)
(* version the table that it adds, or that it gives columns.               *)
(***************************************************************************)
EXTENDS Integers

CURRENT_SCHEMA_VERSION == 9

\* What version 1 requires: the tables of release 0.9.1.
Required == {"users", "vpn_profiles", "routing_groups", "client_assignments"}

Baseline == "users"
ApplicationSettings == "app_settings"
RoutingEvents == "routing_events"
DnsPolicy == "routing_groups"
ConnectionPolicy == "vpn_profiles"
TemporaryOverrides == "client_route_overrides"
ProfileLocation == "vpn_profiles"
LibraryMetadata == "vpn_profiles"
SelfService == "users"

MIGRATIONS ==
    <<Baseline, ApplicationSettings, RoutingEvents, DnsPolicy, ConnectionPolicy,
      TemporaryOverrides, ProfileLocation, LibraryMetadata, SelfService>>
=============================================================================
