------------------------------ MODULE MCPolicy ------------------------------
(* Roles that overlap in name, actions, devices, addresses and limits.      *)
EXTENDS Policy

CONSTANTS laptop, kiosk

Role(name, actions) ==
  [name |-> name, allowed_actions |-> actions, selectors |-> {}, require_mfa |-> FALSE,
   managed_client_device |-> FALSE, allowed_ip_ranges |-> {}, clipboard |-> TRUE, files |-> TRUE,
   audio |-> TRUE, max_duration |-> None, width |-> None, height |-> None]

Range4(net, prefix) == [family |-> "v4", net |-> net, prefix |-> prefix]
Ip4(addr) == [family |-> "v4", addr |-> addr]

MCRoleDefs == {
  [Role("operator", {"desktop.view", Control}) EXCEPT !.clipboard = FALSE, !.width = 2, !.height = 1],
  [Role("operator", {"desktop.view"}) EXCEPT !.selectors = {{<<"os", "*">>}, {<<"*", "lab">>}}, !.max_duration = 5],
  [Role("admin", {"desktop.view", Control, "clipboard.read"})
     EXCEPT !.require_mfa = TRUE, !.max_duration = 1, !.width = 1, !.height = 2],
  [Role("guest", {"desktop.view"})
     EXCEPT !.allowed_ip_ranges = {Range4(5, 2), Range4(0, 9), [family |-> "v6", net |-> 0, prefix |-> 0]},
            !.selectors = {{<<"os", "win">>, <<"site", "lab">>}}, !.managed_client_device = TRUE,
            !.audio = FALSE, !.width = 2]}

Subject(assigned, mfa, ip) == [roles |-> assigned, mfa |-> mfa, managed |-> ip # None, ip |-> ip]
MCSubjects == {
  Subject(<<>>, TRUE, Ip4(4)),
  Subject(<<"guest">>, FALSE, Ip4(4)),
  Subject(<<"guest", "admin">>, TRUE, Ip4(6)),
  Subject(<<"guest", "admin">>, TRUE, [family |-> "v6", addr |-> 3]),
  Subject(<<"admin", "operator">>, FALSE, None),
  Subject(<<"admin", "operator">>, TRUE, None),
  Subject(<<"operator", "operator">>, TRUE, None)}

MCDeviceLabels == [d \in {laptop, kiosk} |->
  IF d = laptop THEN [os |-> "win", site |-> "lab"] ELSE [site |-> "hall"]]

Full == [clipboard |-> TRUE, files |-> TRUE, audio |-> TRUE, duration |-> 3, resolution |-> None]
MCProposals == {
  [actions |-> {"desktop.view"}, restrictions |-> Full],
  [actions |-> {"desktop.view", Control}, restrictions |-> [Full EXCEPT !.clipboard = FALSE, !.resolution = <<2, 1>>]],
  [actions |-> {"desktop.view"}, restrictions |-> [Full EXCEPT !.duration = 1, !.resolution = <<1, 1>>]]}

MCAddressBits == [v4 |-> 3, v6 |-> 4]

=============================================================================
