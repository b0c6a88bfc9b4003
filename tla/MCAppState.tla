---------------------------- MODULE MCAppState ------------------------------
(***************************************************************************)
(* Room for one device and two machines that compete for it; settings 1    *)
(* turns auto-add on and settings 2 do not fit on flash.  A token is set on*)
(* device 1 and the agent of device 2 has a name discovery does not know.  *)
(***************************************************************************)
EXTENDS AppState

Described(id, source) ==
    [id |-> id, name |-> IF id = 1 THEN 2 ELSE 1, alias |-> NoText, baseUrl |-> 1, auth |-> 0,
     token |-> NoText, source |-> source, shown |-> TRUE, order |-> 0]

MCAdverts == {Described(2, "mdns")}
MCManuals == {Described(1, "manual")}
MCEdits == {<<1, "token", 1>>}
MCOldDocuments ==
    {[version |-> 1, settings |-> 1, devices |-> <<Described(1, "manual")>>]}
=============================================================================
