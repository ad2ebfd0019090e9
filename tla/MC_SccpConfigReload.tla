------------------------- MODULE MC_SccpConfigReload -------------------------
(***************************************************************************)
(* Model-checking instance of SccpConfigReload: one device category and   *)
(* one line category, each of which the file may omit or give in one of   *)
(* four forms, and four forms of [general].                                 *)
(***************************************************************************)
EXTENDS SccpConfigReload, TLC

MC_Numerals == ("30" :> 30) @@ ("45" :> 45) @@ ("60" :> 60) @@ ("2000" :> 2000)
               @@ ("2001" :> 2001) @@ ("1" :> 1)

MC_SectionOrder == <<"SEP0001", "1000">>

General(servername, keepalive, port) ==
    [servername |-> servername, keepalive |-> keepalive, port |-> port]
\* a port alone; a name and a keepalive; another keepalive and a port;
\* a name alone
MC_GeneralSections ==
    { General(NoValue, NoValue, "2001"), General("PBX", "45", NoValue),
      General(NoValue, "30", "2001"), General("PBX", NoValue, NoValue) }

Device(devicetype, keepalive, addon) ==
    [devicetype |-> devicetype, keepalive |-> keepalive, addon |-> addon]
\* no devicetype (skipped); a bare 7960; a 7960 with its own keepalive, a
\* known and an unknown addon; a 7940
MC_DeviceSections ==
    { Device(NoValue, NoValue, <<>>), Device("7960", NoValue, <<>>),
      Device("7960", "30", <<"7914", "7999">>), Device("7940", NoValue, <<>>) }

Line(label, cid_name, cid_num, test2) ==
    [label |-> label, cid_name |-> cid_name, cid_num |-> cid_num, test2 |-> test2]
\* complete; complete with another label and the deprecated test2; no
\* label (skipped); no cid_name (accepted by the requirements test)
MC_LineSections ==
    { Line("Alice", "Alice", "1000", NoValue), Line("Bob", "Alice", "1000", "2000"),
      Line(NoValue, "Alice", "1000", NoValue), Line("Alice", NoValue, "1000", NoValue) }

\* the realtime table without, and with, a row for the line
MC_RealtimeTables ==
    { [l \in Lines |-> NoValue], [l \in Lines |-> Line("Bob", "Alice", "1000", NoValue)] }

\* The database properties do not depend on realtime lines: an empty table.
MC_NoRealtime == { [l \in Lines |-> NoValue] }

Family(dnd, monitor, privacy, lastDialedNumber) ==
    [dnd |-> dnd, monitor |-> monitor, privacy |-> privacy,
     lastDialedNumber |-> lastDialedNumber]
Message(text, timeout) == [text |-> text, timeout |-> timeout]
\* everything saved, the message with a timeout; DND "on", a privacy that
\* is not a number, the message without a timeout; nothing saved
MC_AstDbs ==
    { [family |-> [d \in Devices |-> Family("silent", "1", "1", "100")],
       message |-> Message("hello", "30")],
      [family |-> [d \in Devices |-> Family("on", NoValue, "x", NoValue)],
       message |-> Message("hello", NoValue)],
      [family |-> [d \in Devices |-> Family(NoValue, NoValue, NoValue, NoValue)],
       message |-> Message(NoValue, NoValue)] }

\* The registry does not depend on the database: one with nothing saved.
MC_EmptyAstDb ==
    { [family |-> [d \in Devices |-> Family(NoValue, NoValue, NoValue, NoValue)],
       message |-> Message(NoValue, NoValue)] }
================================================================================
