---------------------------- MODULE NetworkValidate ----------------------------
(***************************************************************************)
(* Which network configurations are accepted, when an applied one counts   *)
(* as working, and which interface carries the traffic                     *)
(* (src/modules/network-manager/lib/network_validate.c), through the       *)
(* changes one after another: the committed configuration is what the next *)
(* proposal is judged by.                                                  *)
(*                                                                         *)
(* The transaction around a change is module NetworkManager's, with its    *)
(* revisions, deadlines and jobs; here is what a change is judged by when  *)
(* it is staged and when it is confirmed.  An address has Width bits.  A   *)
(* proposal is what a caller may hand over, some of it refused before by   *)
(* the request decoder.                                                    *)
(***************************************************************************)
EXTENDS Integers, Sequences, SequencesExt, FiniteSets

CONSTANTS
  Proposals,  \* what requests propose, see below
  Statuses,   \* what the interfaces may be doing
  Width,      \* the bits of an address
  Never,      \* addresses that are no host's on any network
  MaxServers, \* the resolvers a configuration can hold
  MaxFields   \* the problems an error can hold

(* A proposal: [preferred, dns: [mode, servers], ethernet: [enabled, ipv4],   *)
(* wifi: [enabled, ipv4, ssid, security], credential]; an ipv4: [mode,        *)
(* address, prefix, gateway], where Null and 0 are what the request's null    *)
(* decodes to.  A status: an [present, link, ipv4, route, associated,         *)
(* connecting, failed] for each interface.                                    *)
Null == -1
Interfaces == {"ethernet", "wifi"}
Untouched == [preferred |-> "ethernet", enabled |-> {"ethernet"},
              ssid |-> "none", security |-> "open", password_set |-> FALSE]

VARIABLES
  committed,  \* the configuration in force, as far as it is judged by
  candidate,  \* the accepted proposal, with what becomes of the password, or None
  status,     \* what the interfaces are doing
  answer,     \* the last answer
  owner       \* the network that the stored password was entered for (history)

vars == <<committed, candidate, status, answer, owner>>

None == [preferred |-> "none"]
NoAnswer == [of |-> None, errors |-> <<>>, truncated |-> FALSE]
NoOwner == [ssid |-> "none", security |-> "none"]

Init ==
  /\ committed = Untouched /\ owner = NoOwner
  /\ candidate = None /\ answer = NoAnswer
  /\ status \in Statuses

-----------------------------------------------------------------------------
(* Addresses: api_validation.c *)

block(prefix) == 2^(Width - prefix)
api_ipv4_prefix_is_valid(prefix) == prefix \in 1..(Width - 2)
api_ipv4_same_subnet(a, b, prefix) == a \div block(prefix) = b \div block(prefix)
api_ipv4_is_usable_host(a, prefix) == a % block(prefix) \notin {0, block(prefix) - 1} /\ a \notin Never

-----------------------------------------------------------------------------
(* Validation: the problems in the order they are found, <<path, code>> each *)

problem_if(broken, path, code) == IF broken THEN <<<<path, code>>>> ELSE <<>>

validate_dhcp(iface, ip) ==
  problem_if(ip.address # Null, <<iface, "address">>, "not_allowed")
  \o problem_if(ip.prefix # 0, <<iface, "prefix_length">>, "not_allowed")
  \o problem_if(ip.gateway # Null, <<iface, "gateway">>, "not_allowed")

\* An address that is wrong judges no gateway.
validate_static(iface, ip) ==
  LET missing ==
        problem_if(ip.address = Null, <<iface, "address">>, "required")
        \o problem_if(ip.prefix = 0, <<iface, "prefix_length">>, "required")
        \o problem_if(ip.prefix # 0 /\ ~api_ipv4_prefix_is_valid(ip.prefix),
                      <<iface, "prefix_length">>, "out_of_range")
      host(a) == api_ipv4_is_usable_host(a, ip.prefix)
      reached == host(ip.gateway) /\ api_ipv4_same_subnet(ip.address, ip.gateway, ip.prefix)
  IN CASE missing # <<>> -> missing
       [] missing = <<>> /\ ~host(ip.address) -> <<<<<<iface, "address">>, "out_of_range">>>>
       [] OTHER -> IF ip.gateway = Null THEN <<>>
                   ELSE problem_if(~reached, <<iface, "gateway">>, "out_of_range")
                        \o problem_if(reached /\ ip.gateway = ip.address,
                                      <<iface, "gateway">>, "conflicting")

validate_ipv4(iface, ip) ==
  IF ip.mode = "dhcp" THEN validate_dhcp(iface, ip) ELSE validate_static(iface, ip)

validate_dns(dns) ==
  problem_if(dns.mode = "automatic" /\ dns.servers # <<>>, <<"dns", "servers">>, "not_allowed")
  \o problem_if(dns.mode = "manual" /\ dns.servers = <<>>, <<"dns", "servers">>, "required")
  \o IF Len(dns.servers) > MaxServers THEN <<<<<<"dns", "servers">>, "out_of_range">>>>
     ELSE FlattenSeq([i \in DOMAIN dns.servers |->
            problem_if(dns.servers[i] \in {"zero", "unknown"}, <<"server", i>>, "invalid_format")])

validate_ssid(ssid) ==
  problem_if(ssid = "invalid", <<"wifi", "ssid_base64">>, "invalid_format")
  \o problem_if(ssid = "none", <<"wifi", "ssid_base64">>, "required")
  \o problem_if(ssid = "long", <<"wifi", "ssid_base64">>, "out_of_range")

same_profile(wifi) == wifi.ssid = committed.ssid /\ wifi.security = committed.security

\* MUTANT of validate_credential: the password goes along to any network as well secured.
validate_credential_anywhere(wifi, action) ==
  LET path == <<"wifi", "credential/action">>
      open == wifi.security = "open"
      same == wifi.security = committed.security
  IN problem_if(action = "replace with nothing", <<"wifi", "credential">>, "conflicting")
     \o problem_if(action = "replace" /\ open, path, "not_allowed")
     \o problem_if(action = "clear" /\ ~open, path, "conflicting")
     \o problem_if(action = "keep" /\ ~open /\ ~committed.password_set, path, "conflicting")
     \o problem_if(action = "keep" /\ ~open /\ committed.password_set /\ ~same, path, "not_allowed")

\* A kept password needs the profile it was stored for.
validate_credential(wifi, action) ==
  LET path == <<"wifi", "credential/action">>
      open == wifi.security = "open"
      keeps == action = "keep" /\ ~open
  IN problem_if(action = "replace with nothing", <<"wifi", "credential">>, "conflicting")
     \o problem_if(action = "replace" /\ open, path, "not_allowed")
     \o problem_if(action = "clear" /\ ~open, path, "conflicting")
     \o problem_if(keeps /\ ~committed.password_set, path, "conflicting")
     \o problem_if(keeps /\ committed.password_set /\ ~same_profile(wifi), path, "not_allowed")

\* A disabled interface is not held to any of it.
validate_wifi(input) ==
  IF ~input.wifi.enabled THEN <<>>
  ELSE validate_ssid(input.wifi.ssid) \o validate_credential(input.wifi, input.credential)

interface_enabled(input, iface) == input[iface].enabled

validate_enabled(input) ==
  LET off == \A i \in Interfaces : ~interface_enabled(input, i) IN
  problem_if(off, <<"ethernet", "enabled">>, "conflicting")
  \o problem_if(off, <<"wifi", "enabled">>, "conflicting")
  \o problem_if(input.wifi.enabled /\ ~status["wifi"].present, <<"wifi", "enabled">>, "not_allowed")

\* The way back: an interface that stays on has a link now.
path_now(input, iface) ==
  interface_enabled(input, iface) /\ status[iface].present /\ status[iface].link
validate_recovery(input) ==
  LET cut == \A i \in Interfaces : ~path_now(input, i) IN
  problem_if(cut, <<"ethernet", "enabled">>, "not_allowed")
  \o problem_if(cut, <<"wifi", "enabled">>, "not_allowed")

network_validate_config(input) ==
  LET found ==
        validate_enabled(input)
        \o validate_ipv4("ethernet", input.ethernet.ipv4) \o validate_ipv4("wifi", input.wifi.ipv4)
        \o validate_dns(input.dns)
        \o problem_if(~interface_enabled(input, input.preferred), <<"preferred">>, "conflicting")
        \o validate_wifi(input)
  IN IF found = <<>> THEN validate_recovery(input) ELSE found

-----------------------------------------------------------------------------
(* The policies that read the interfaces *)

network_config_is_healthy(input) ==
  \A i \in Interfaces :
    interface_enabled(input, i) =>
      /\ status[i].present /\ status[i].link /\ status[i].ipv4
      /\ input[i].ipv4.mode = "static" /\ input[i].ipv4.gateway # Null => status[i].route

network_iface_state_of(iface) ==
  LET st == status[iface]
      apart == iface = "wifi" /\ ~st.associated
  IN CASE iface \notin committed.enabled -> "disabled"
       [] iface \in committed.enabled /\ ~st.present -> "failed"
       [] iface \in committed.enabled /\ st.present /\ apart ->
            IF st.connecting THEN "connecting" ELSE IF st.failed THEN "failed" ELSE "down"
       [] OTHER -> IF ~st.link THEN "down" ELSE IF st.ipv4 THEN "ready" ELSE "addressing"

can_carry_traffic(iface) ==
  iface \in committed.enabled /\ status[iface].present /\ status[iface].link /\ status[iface].ipv4

network_select_default ==
  LET other == CHOOSE i \in Interfaces : i # committed.preferred IN
  CASE can_carry_traffic(committed.preferred) -> committed.preferred
    [] ~can_carry_traffic(committed.preferred) /\ can_carry_traffic(other) -> other
    [] OTHER -> "none"

-----------------------------------------------------------------------------
(* A change *)

\* api_error_add_field() keeps the first problems and says that there were more.
rejection(input, found) ==
  [of |-> input, errors |-> SubSeq(found, 1, IF Len(found) < MaxFields THEN Len(found) ELSE MaxFields),
   truncated |-> Len(found) > MaxFields]

\* The store derives whether there is a password; a caller is not believed.
candidate_of(input) ==
  input @@ [password_set |-> \/ input.credential = "replace"
                             \/ input.credential = "keep" /\ committed.password_set]

network_stage_config ==
  /\ candidate = None /\ answer = NoAnswer
  /\ \E input \in Proposals :
       LET found == network_validate_config(input) IN
       IF found = <<>> THEN candidate' = candidate_of(input) /\ UNCHANGED answer
                       ELSE answer' = rejection(input, found) /\ UNCHANGED candidate
  /\ UNCHANGED <<committed, status, owner>>

\* What the store holds once the candidate is written, and the password it belongs to.
build_update(x) ==
  [preferred |-> x.preferred, enabled |-> {i \in Interfaces : interface_enabled(x, i)},
   ssid |-> x.wifi.ssid, security |-> x.wifi.security, password_set |-> x.password_set]
new_owner(x) ==
  CASE x.credential = "replace" -> [ssid |-> x.wifi.ssid, security |-> x.wifi.security]
    [] x.credential # "replace" /\ x.password_set -> owner
    [] OTHER -> NoOwner

network_confirm ==
  /\ candidate # None
  /\ network_config_is_healthy(candidate)
  /\ committed' = build_update(candidate) /\ owner' = new_owner(candidate)
  /\ candidate' = None
  /\ UNCHANGED <<status, answer>>

\* Asked for, or out of time.
network_rollback ==
  /\ candidate # None
  /\ candidate' = None
  /\ UNCHANGED <<committed, status, answer, owner>>

reads_the_answer ==
  /\ answer # NoAnswer
  /\ answer' = NoAnswer
  /\ UNCHANGED <<committed, candidate, status, owner>>

interfaces_change ==
  /\ answer = NoAnswer
  /\ status' \in Statuses
  /\ UNCHANGED <<committed, candidate, answer, owner>>

Next ==
  network_stage_config \/ network_confirm \/ network_rollback \/ reads_the_answer
  \/ interfaces_change

Spec == Init /\ [][Next]_vars

-----------------------------------------------------------------------------
(* Properties *)

Addresses == 0..(2^Width - 1)
Subnet(a, prefix) == {b \in Addresses : b \div 2^(Width - prefix) = a \div 2^(Width - prefix)}
Hosts(net) == {a \in net : (\E b \in net : b < a) /\ (\E b \in net : b > a)} \ Never

Usable(ip) ==
  IF ip.mode = "dhcp" THEN ip.address = Null /\ ip.prefix = 0 /\ ip.gateway = Null
  ELSE /\ ip.address \in Addresses
       /\ ip.prefix \in 1..Width /\ Cardinality(Subnet(ip.address, ip.prefix)) >= 4
       /\ ip.address \in Hosts(Subnet(ip.address, ip.prefix))
       /\ ip.gateway \in {Null} \cup (Hosts(Subnet(ip.address, ip.prefix)) \ {ip.address})

\* The contract of the credential (api-contract.md:171): an open network's password is
\* cleared, a protected one has one, and what is kept is kept for the network that it was
\* entered for.
Profile(wifi) == [ssid |-> wifi.ssid, security |-> wifi.security]
PasswordFits(input) ==
  IF input.wifi.security = "open" THEN input.credential = "clear"
  ELSE \/ input.credential = "replace"
       \/ /\ input.credential = "keep" /\ committed.password_set
          /\ Profile(input.wifi) = Profile(committed) /\ Profile(committed) = owner

\* The code takes more than that: an open network with a password kept, and the password of
\* a network renamed while Wi-Fi was off, or open.
TakenAllTheSame(input) ==
  /\ input.wifi.enabled /\ input.credential = "keep"
  /\ input.wifi.security = "open" \/ Profile(committed) # owner

Acceptable(input) ==
  /\ Usable(input.ethernet.ipv4) /\ Usable(input.wifi.ipv4)
  /\ input.dns.mode = "manual" <=> input.dns.servers # <<>>
  /\ Len(input.dns.servers) <= MaxServers /\ Range(input.dns.servers) \subseteq {"good"}
  /\ interface_enabled(input, input.preferred)
  /\ input.wifi.enabled =>
       /\ status["wifi"].present /\ input.wifi.ssid \in {"a", "b"}
       /\ PasswordFits(input)

HasAWayBack(input) == \E i \in Interfaces : path_now(input, i)

\* A rejection names at least one field and none twice with one complaint, and says when
\* it left some out; what is rejected breaks a rule, or cuts every way to the device.
RejectionIsTold ==
  answer # NoAnswer =>
    /\ Len(answer.errors) \in 1..MaxFields
    /\ answer.truncated => Len(answer.errors) = MaxFields
    /\ IsInjective(answer.errors)
    /\ ~(Acceptable(answer.of) /\ HasAWayBack(answer.of))

\* What the status says is ready carries traffic, and the traffic goes over what the
\* configuration prefers whenever that is ready.
ActiveIsReady ==
  /\ \A i \in committed.enabled : network_iface_state_of(i) = "ready" => can_carry_traffic(i)
  /\ network_iface_state_of(committed.preferred) = "ready" =>
       network_select_default = committed.preferred
  /\ network_select_default = "none" =>
       \A i \in Interfaces : network_iface_state_of(i) # "ready"

\* A rejection is told, the status is true, and what is committed can be managed: the
\* preferred interface is one that is on: network_validate.c, network_validate_config().
ConfigIsJudged ==
  /\ RejectionIsTold /\ ActiveIsReady
  /\ committed.preferred \in committed.enabled

\* A configuration is accepted only when every rule holds of it, where code and contract
\* agree, and one of its interfaces can reach the device now.
AcceptedIsAcceptable ==
  [][candidate' \notin {None, candidate} =>
       /\ HasAWayBack(candidate')
       /\ ~TakenAllTheSame(candidate') => Acceptable(candidate')]_vars

\* network_validate.c, validate_wifi(): the stored password belongs to the network it was
\* entered for, and is not carried to another.
KeptPasswordIsItsNetworks ==
  "wifi" \in committed.enabled /\ committed.security # "open" /\ committed.password_set =>
    owner = [ssid |-> committed.ssid, security |-> committed.security]
=============================================================================
