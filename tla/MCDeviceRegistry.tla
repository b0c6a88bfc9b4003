-------------------------- MODULE MCDeviceRegistry --------------------------
(***************************************************************************)
(* Three machines and room for two devices: enough to fill the list while a*)
(* third machine waits, to have an id twice, and to leave a device out of a*)
(* reorder.  Machine 1 has two addresses, machine 3 is only known from a   *)
(* restored document, where it is hidden; only the fields a property reads *)
(* take two values.                                                        *)
(***************************************************************************)
EXTENDS DeviceRegistry

Described(id, url, source) ==
    [id |-> id, name |-> 1, alias |-> NoText, baseUrl |-> url, auth |-> 0,
     token |-> NoText, source |-> source, shown |-> TRUE, order |-> 0]

MCAdverts ==
    {Described(1, 1, "mdns"), Described(1, 2, "mdns"), Described(2, NoText, "mqtt")}
MCManuals == {Described(1, 1, "manual")}
MCEdits == {<<"baseUrl", NoText>>, <<"baseUrl", 2>>, <<"order", 1>>}
MCDocuments ==
    {<<Described(1, 2, "manual")>>,
     <<Described(2, 1, "mdns"), [Described(3, 1, "mdns") EXCEPT !.shown = FALSE]>>}
=============================================================================
