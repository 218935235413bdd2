------------------------------ MODULE LogBuffer ------------------------------
(***************************************************************************)
(* The bytes of slog's buffer (src/src/libxray/slog/log.go): XrayService   *)
(* models when it is written, read and emptied, this module what           *)
(* WriteLogToBuffer keeps of it.  Of a byte only its being a newline       *)
(* matters; the positions here start at 1, Go's at 0.                      *)
(***************************************************************************)
EXTENDS Integers, Sequences, FiniteSetsExt

Newline == "newline"
Bytes == {Newline, "other"}

(* Where the newlines of data[len(data)/2:] are. *)
Cuts(data) == {i \in (Len(data) \div 2 + 1)..Len(data) : data[i] = Newline}

Trim(data) ==
    IF Cuts(data) = {} THEN << >> ELSE SubSeq(data, Min(Cuts(data)) + 1, Len(data))

WriteLogToBuffer(data, msg, maxBufferSize) ==
    (IF Len(data) > maxBufferSize THEN Trim(data) ELSE data) \o msg \o <<Newline>>
=============================================================================
