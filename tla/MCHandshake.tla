---------------------------- MODULE MCHandshake -----------------------------
(***************************************************************************)
(* The messages of mod_event_socket that the handshake tells apart.        *)
(***************************************************************************)
EXTENDS Handshake

Line(name, value) == <<name, ":">> \o value \o <<nl>>

AuthRequest == Line(CT, <<"auth/request">>) \o <<nl>>
RudeRejection == Line(CT, <<"text/rude-rejection">>) \o Line(CL, <<"1">>) \o <<nl, "body">>
Notice == Line(CT, <<"text/disconnect-notice">>) \o Line(CL, <<"1">>) \o <<nl, "body">>
Accept == Line(CT, <<"command/reply">>) \o Line(RT, <<"+", "OK">>)
            \o Line("Allowed-Events", <<"x">>) \o <<nl>>
Refuse == Line(CT, <<"command/reply">>) \o Line(RT, <<"-", "ERR">>) \o <<nl>>

MCGreetings ==
  {AuthRequest, RudeRejection, Notice, <<"x", nl, nl>>, Line(CL, <<"1">>) \o <<nl, "body">>}
MCAcceptances == {Accept}
MCRefusals == {Refuse}
MCNotices == {Notice}

=============================================================================
