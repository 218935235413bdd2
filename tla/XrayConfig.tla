----------------------------- MODULE XrayConfig -----------------------------
(***************************************************************************)
(* What XrayService does to the configuration it is given before Xray-core *)
(* sees it: loadServer (src/src/libxray/service.go) moves the first socks  *)
(* inbound to the client's port, in the string or in the file itself.      *)
(* A text is abstracted to what gjson and sjson are asked about it.        *)
(***************************************************************************)
EXTENDS Integers, Sequences

(* A port that is absent is one more value of Ports: sjson.Set adds the key. *)
Inbound(Protocols, Ports) == [protocol : Protocols, port : Ports]

(* json: it is valid JSON; array: "inbounds" is there, and an array *)
Text(Protocols, Ports) ==
    [json : BOOLEAN, array : BOOLEAN, inbounds : Seq(Inbound(Protocols, Ports))]

IsFirstSocks(inbounds, i) ==
    /\ inbounds[i].protocol = "socks"
    /\ \A j \in 1..(i - 1) : inbounds[j].protocol # "socks"

Replaceable(text) == text.json /\ text.array

(* The loop stops at the first socks inbound; with none, nothing changes *)
(* and that is no error.                                                 *)
replaceInboundSocksPort(text, port) ==
    [text EXCEPT !.inbounds =
        [i \in 1..Len(@) |-> IF IsFirstSocks(@, i) THEN [@[i] EXCEPT !.port = port] ELSE @[i]]]

(* WriteFile truncates first: what an error or a crash leaves is a proper   *)
(* prefix of an object, never valid JSON.                                   *)
Torn(text) == [text EXCEPT !.json = FALSE]

(* The outcomes of loadServer: whether Xray-core was given a config and took *)
(* it, that config, and what the file (or the caller's string) holds then.   *)
(* The context may be over and the file unreadable whatever it holds.        *)
loadServer(text, isStr, port) ==
    LET replaced == replaceInboundSocksPort(text, port)
        refused == [loaded |-> FALSE, config |-> text, file |-> text]
        torn == [loaded |-> FALSE, config |-> text, file |-> Torn(replaced)]
        parsed(loaded) ==
            [loaded |-> loaded, config |-> replaced, file |-> IF isStr THEN text ELSE replaced]
    IN  {refused}
        \cup {parsed(loaded) : loaded \in IF Replaceable(text) THEN BOOLEAN ELSE {}}
        \cup (IF Replaceable(text) /\ ~isStr THEN {torn} ELSE {})
=============================================================================
