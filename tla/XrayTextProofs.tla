--------------------------- MODULE XrayTextProofs ---------------------------
(* What libxray makes of its texts, whatever their size: the configuration  *)
(* with any inbounds, protocols and ports, and the log buffer.              *)
EXTENDS XrayConfig, LogBuffer, SequenceTheorems, WellFoundedInduction, TLAPS

(* The rewritten inbounds, one by one; which one is first does not change.  *)
LEMMA Rewritten ==
    ASSUME NEW Protocols, NEW Ports, NEW text \in Text(Protocols, Ports), NEW port \in Ports
    PROVE  LET new == replaceInboundSocksPort(text, port) IN
           /\ new \in Text(Protocols, Ports)
           /\ new.json = text.json /\ new.array = text.array
           /\ Len(new.inbounds) = Len(text.inbounds)
           /\ \A i \in 1..Len(text.inbounds) :
                /\ new.inbounds[i].protocol = text.inbounds[i].protocol
                /\ new.inbounds[i].port =
                      IF IsFirstSocks(text.inbounds, i) THEN port ELSE text.inbounds[i].port
                /\ IsFirstSocks(new.inbounds, i) <=> IsFirstSocks(text.inbounds, i)
<1> DEFINE old == text.inbounds
           In == Inbound(Protocols, Ports)
           moved(i) == IF IsFirstSocks(old, i) THEN [old[i] EXCEPT !.port = port] ELSE old[i]
           ins == [i \in 1..Len(old) |-> moved(i)]
<1>1. old \in Seq(In) /\ text.json \in BOOLEAN /\ text.array \in BOOLEAN
  BY DEF Text
<1>2. Len(old) \in Nat /\ \A i \in 1..Len(old) : old[i] \in In
  BY <1>1, LenProperties, ElementOfSeq
<1>3. \A i \in 1..Len(old) :
        /\ moved(i) \in In
        /\ moved(i).protocol = old[i].protocol
        /\ moved(i).port = IF IsFirstSocks(old, i) THEN port ELSE old[i].port
  BY <1>2 DEF Inbound
<1> HIDE DEF moved
<1>4. ins \in Seq(In) /\ Len(ins) = Len(old)
  <2>1. ins \in [1..Len(old) -> In]
    BY <1>3
  <2> QED BY <2>1, <1>2, SeqDef
<1>5. \A i \in 1..Len(old) : IsFirstSocks(ins, i) <=> IsFirstSocks(old, i)
  <2>1. \A i \in 1..Len(old) : ins[i].protocol = old[i].protocol
    BY <1>3
  <2> HIDE DEF ins, old
  <2> QED BY <2>1, <1>2 DEF IsFirstSocks
<1>6. replaceInboundSocksPort(text, port) = [text EXCEPT !.inbounds = ins]
  BY DEF replaceInboundSocksPort, moved
<1>7. /\ [text EXCEPT !.inbounds = ins] \in Text(Protocols, Ports)
      /\ [text EXCEPT !.inbounds = ins].inbounds = ins
      /\ [text EXCEPT !.inbounds = ins].json = text.json
      /\ [text EXCEPT !.inbounds = ins].array = text.array
  BY <1>1, <1>4 DEF Text
<1> QED BY <1>3, <1>4, <1>5, <1>6, <1>7

(* "loadServer initializes the Xray core server based on the configuration  *)
(* provided and replaces the inbound socks port" (service.go:14): a config  *)
(* Xray-core took has its first socks inbound, if it has one, on the port   *)
(* that was asked for, and no other inbound was touched.                    *)
THEOREM PortIsReplaced ==
    ASSUME NEW Protocols, NEW Ports, NEW text \in Text(Protocols, Ports), NEW port \in Ports,
           NEW isStr \in BOOLEAN, NEW outcome \in loadServer(text, isStr, port), outcome.loaded
    PROVE  /\ Len(outcome.config.inbounds) = Len(text.inbounds)
           /\ \A i \in 1..Len(text.inbounds) :
                /\ IsFirstSocks(outcome.config.inbounds, i) =>
                        outcome.config.inbounds[i].port = port
                /\ ~IsFirstSocks(text.inbounds, i) =>
                        outcome.config.inbounds[i].port = text.inbounds[i].port
                /\ outcome.config.inbounds[i].protocol = text.inbounds[i].protocol
<1>1. outcome.config = replaceInboundSocksPort(text, port)
  BY DEF loadServer
<1> QED BY <1>1, Rewritten

(* A second rewriting, of what the first one wrote, is as if it had been the *)
(* only one.                                                                *)
THEOREM LastPortWins ==
    ASSUME NEW Protocols, NEW Ports, NEW text \in Text(Protocols, Ports),
           NEW p \in Ports, NEW q \in Ports
    PROVE  replaceInboundSocksPort(replaceInboundSocksPort(text, p), q)
             = replaceInboundSocksPort(text, q)
<1> DEFINE once == replaceInboundSocksPort(text, p)
           twice == replaceInboundSocksPort(once, q)
           direct == replaceInboundSocksPort(text, q)
           In == Inbound(Protocols, Ports)
<1>1. once \in Text(Protocols, Ports) /\ direct \in Text(Protocols, Ports)
  BY Rewritten
<1>2. twice \in Text(Protocols, Ports)
  BY <1>1, Rewritten
<1>3. /\ twice.json = direct.json /\ twice.array = direct.array
      /\ Len(twice.inbounds) = Len(direct.inbounds)
      /\ Len(twice.inbounds) = Len(text.inbounds)
  <2>1. once.json = text.json /\ once.array = text.array
        /\ Len(once.inbounds) = Len(text.inbounds)
    BY Rewritten
  <2>2. twice.json = once.json /\ twice.array = once.array
        /\ Len(twice.inbounds) = Len(once.inbounds)
    BY <1>1, Rewritten
  <2>3. direct.json = text.json /\ direct.array = text.array
        /\ Len(direct.inbounds) = Len(text.inbounds)
    BY Rewritten
  <2> HIDE DEF once, twice, direct
  <2> QED BY <2>1, <2>2, <2>3
<1>4. \A i \in 1..Len(text.inbounds) :
        /\ twice.inbounds[i].protocol = direct.inbounds[i].protocol
        /\ twice.inbounds[i].port = direct.inbounds[i].port
  <2> SUFFICES ASSUME NEW i \in 1..Len(text.inbounds)
               PROVE  /\ twice.inbounds[i].protocol = direct.inbounds[i].protocol
                      /\ twice.inbounds[i].port = direct.inbounds[i].port
    OBVIOUS
  <2>1. /\ Len(once.inbounds) = Len(text.inbounds)
        /\ once.inbounds[i].protocol = text.inbounds[i].protocol
        /\ once.inbounds[i].port =
              IF IsFirstSocks(text.inbounds, i) THEN p ELSE text.inbounds[i].port
        /\ IsFirstSocks(once.inbounds, i) <=> IsFirstSocks(text.inbounds, i)
    BY Rewritten
  <2>2. i \in 1..Len(once.inbounds)
    BY <2>1
  <2>3. /\ twice.inbounds[i].protocol = once.inbounds[i].protocol
        /\ twice.inbounds[i].port =
              IF IsFirstSocks(once.inbounds, i) THEN q ELSE once.inbounds[i].port
    BY <1>1, <2>2, Rewritten
  <2>4. /\ direct.inbounds[i].protocol = text.inbounds[i].protocol
        /\ direct.inbounds[i].port =
              IF IsFirstSocks(text.inbounds, i) THEN q ELSE text.inbounds[i].port
    BY Rewritten
  <2> HIDE DEF once, twice, direct
  <2> QED BY <2>1, <2>3, <2>4
<1> HIDE DEF once, twice, direct
<1>5. twice.inbounds = direct.inbounds
  <2>1. twice.inbounds \in Seq(In) /\ direct.inbounds \in Seq(In)
    BY <1>1, <1>2 DEF Text
  <2>2. \A i \in 1..Len(text.inbounds) : twice.inbounds[i] \in In /\ direct.inbounds[i] \in In
    BY <2>1, <1>3, ElementOfSeq
  <2>3. \A i \in 1..Len(text.inbounds) : twice.inbounds[i] = direct.inbounds[i]
    BY <2>2, <1>4 DEF Inbound
  <2> QED BY <2>1, <2>3, <1>3, SeqEqual
<1>6. twice = direct
  BY <1>1, <1>2, <1>3, <1>5 DEF Text
<1> QED BY <1>6 DEF twice, direct, once

(* In file mode a start writes its port into the file it was given.  Unless *)
(* the write itself was torn, no start, failed or not, changes what a later *)
(* one makes of the file.                                                   *)
THEOREM FileStaysUsable ==
    ASSUME NEW Protocols, NEW Ports, NEW text \in Text(Protocols, Ports),
           NEW p \in Ports, NEW q \in Ports,
           NEW outcome \in loadServer(text, FALSE, p), outcome.file.json = text.json
    PROVE  replaceInboundSocksPort(outcome.file, q) = replaceInboundSocksPort(text, q)
<1> DEFINE once == replaceInboundSocksPort(text, p)
<1>1. once \in Text(Protocols, Ports)
  BY Rewritten
<1>2. Replaceable(text) => text.json
  BY DEF Replaceable
<1>3. Torn(once).json = FALSE
  BY <1>1 DEF Torn, Text
<1>4. outcome.file \in {text, once}
  BY <1>2, <1>3 DEF loadServer
<1> QED BY <1>4, LastPortWins
-----------------------------------------------------------------------------
(* A set of positions that is not empty has a first one. *)
LEMMA FirstPosition ==
    ASSUME NEW S \in SUBSET Nat, S # {}
    PROVE  Min(S) \in S /\ \A y \in S : Min(S) =< y
<1>1. IsWellFoundedOn(OpToRel(<, Nat), Nat)
  BY NatLessThanWellFounded
<1>2. PICK x \in S : \A y \in S : ~(<<y, x>> \in OpToRel(<, Nat))
  BY <1>1, WFMin
<1>3. \A y \in S : ~(y < x)
  <2>1. \A y \in Nat : y < x => <<y, x>> \in Nat \X Nat /\ <<y, x>>[1] < <<y, x>>[2]
    OBVIOUS
  <2>2. \A y \in Nat : y < x => <<y, x>> \in OpToRel(<, Nat)
    BY <2>1, Zenon DEF OpToRel
  <2> QED BY <1>2, <2>2
<1>4. \A y \in S : x =< y
  BY <1>3
<1> QED BY <1>4 DEF Min

(* "trimming it if oversized" (slog/log.go:20) never leaves part of a line: *)
(* what is kept is what follows the first newline of the second half, and   *)
(* at most half of the buffer.                                              *)
THEOREM TrimKeepsWholeLines ==
    ASSUME NEW data \in Seq(Bytes)
    PROVE  /\ Trim(data) \in Seq(Bytes)
           /\ 2 * Len(Trim(data)) =< Len(data)
           /\ Trim(data) # << >> =>
                \E n \in (Len(data) \div 2 + 1)..Len(data) :
                    /\ data[n] = Newline
                    /\ \A i \in (Len(data) \div 2 + 1)..(n - 1) : data[i] # Newline
                    /\ Trim(data) = SubSeq(data, n + 1, Len(data))
<1> DEFINE L == Len(data)
           half == Len(data) \div 2 + 1
<1>1. L \in Nat /\ half \in Nat \ {0} /\ 2 * half > L
  BY LenProperties
<1> HIDE DEF L, half
<1>2. CASE Cuts(data) = {}
  BY <1>2, <1>1 DEF Trim, L
<1>3. CASE Cuts(data) # {}
  <2> DEFINE n == Min(Cuts(data))
  <2>1. Cuts(data) \subseteq half..L /\ Cuts(data) \in SUBSET Nat
    BY <1>1 DEF Cuts, L, half
  <2>2. n \in Cuts(data) /\ \A y \in Cuts(data) : n =< y
    BY <1>3, <2>1, FirstPosition
  <2> HIDE DEF n
  <2>3. n \in half..L /\ n \in Nat /\ data[n] = Newline
    BY <2>1, <2>2 DEF Cuts
  <2>4. \A i \in half..(n - 1) : data[i] # Newline
    <3> SUFFICES ASSUME NEW i \in half..(n - 1), data[i] = Newline PROVE FALSE
      OBVIOUS
    <3>1. i \in Cuts(data)
      BY <2>3, <1>1 DEF Cuts, half, L
    <3> QED BY <3>1, <2>2, <2>3, <1>1
  <2>5. Trim(data) = SubSeq(data, n + 1, L)
    BY <1>3 DEF Trim, n, L
  <2>6. /\ SubSeq(data, n + 1, L) \in Seq(Bytes)
        /\ Len(SubSeq(data, n + 1, L)) = IF n + 1 =< L THEN L - n ELSE 0
    BY <2>3, <1>1, SubSeqProperties DEF L
  <2>7. 2 * Len(Trim(data)) =< L
    BY <2>3, <2>5, <2>6, <1>1
  <2> QED BY <2>3, <2>4, <2>5, <2>6, <2>7 DEF half, L
<1> QED BY <1>2, <1>3

(* The buffer stays within maxBufferSize and the one message that takes it  *)
(* over, whatever is logged and however long nobody fetches, as long as no  *)
(* message alone is longer than maxBufferSize.                              *)
THEOREM BufferIsBounded ==
    ASSUME NEW maxBufferSize \in Nat, NEW longest \in 0..maxBufferSize,
           NEW data \in Seq(Bytes), Len(data) =< maxBufferSize + longest + 1,
           NEW msg \in Seq(Bytes), Len(msg) =< longest
    PROVE  /\ WriteLogToBuffer(data, msg, maxBufferSize) \in Seq(Bytes)
           /\ Len(WriteLogToBuffer(data, msg, maxBufferSize)) =< maxBufferSize + longest + 1
<1> DEFINE kept == IF Len(data) > maxBufferSize THEN Trim(data) ELSE data
<1>1. kept \in Seq(Bytes) /\ Len(kept) =< maxBufferSize /\ Len(kept) \in Nat
  <2>1. Trim(data) \in Seq(Bytes) /\ 2 * Len(Trim(data)) =< Len(data)
    BY TrimKeepsWholeLines
  <2>2. Len(data) \in Nat /\ Len(Trim(data)) \in Nat
    BY <2>1, LenProperties
  <2>3. 2 * Len(Trim(data)) =< maxBufferSize + longest + 1 /\ longest =< maxBufferSize
    BY <2>1, <2>2
  <2>4. Len(Trim(data)) =< maxBufferSize
    BY <2>2, <2>3
  <2> QED BY <2>1, <2>2, <2>4
<1>2. WriteLogToBuffer(data, msg, maxBufferSize) = kept \o msg \o <<Newline>>
  BY DEF WriteLogToBuffer
<1> HIDE DEF kept
<1>3. <<Newline>> \in Seq(Bytes) /\ Len(<<Newline>>) = 1
  BY DEF Bytes
<1>4. kept \o msg \in Seq(Bytes) /\ Len(kept \o msg) = Len(kept) + Len(msg)
  BY <1>1, ConcatProperties
<1>5. /\ kept \o msg \o <<Newline>> \in Seq(Bytes)
      /\ Len(kept \o msg \o <<Newline>>) = Len(kept \o msg) + 1
  BY <1>3, <1>4, ConcatProperties
<1>6. Len(msg) \in Nat
  BY LenProperties
<1> QED BY <1>1, <1>2, <1>4, <1>5, <1>6
-----------------------------------------------------------------------------
(* Nothing, or lines to the last of which nothing is missing. *)
WholeLines(data) == data = << >> \/ data[Len(data)] = Newline

(* Trimming takes whole lines from the front of the buffer and nothing else. *)
LEMMA TrimCutsLines ==
    ASSUME NEW data \in Seq(Bytes), WholeLines(data)
    PROVE  \E lost \in Seq(Bytes) :
              WholeLines(lost) /\ data = lost \o Trim(data) /\ WholeLines(Trim(data))
<1> DEFINE L == Len(data)
<1>1. L \in Nat
  BY LenProperties
<1>2. CASE Trim(data) = << >>
  <2>1. data \o << >> = data
    BY ConcatEmptySeq
  <2> QED BY <1>2, <2>1 DEF WholeLines
<1>3. CASE Trim(data) # << >>
  <2>1. PICK n \in (L \div 2 + 1)..L : data[n] = Newline /\ Trim(data) = SubSeq(data, n + 1, L)
    BY <1>3, TrimKeepsWholeLines
  <2>2. n \in 1..L /\ n \in Nat
    BY <2>1, <1>1
  <2> DEFINE lost == SubSeq(data, 1, n)
  <2>3. /\ lost \in Seq(Bytes) /\ Len(lost) = n
        /\ \A i \in 1..n : lost[i] = data[i]
    <3>1. \A i \in 1..n : data[i] \in Bytes
      BY <2>2, <1>1, ElementOfSeq
    <3> QED BY <2>2, <3>1, SubSeqProperties
  <2>4. lost \o Trim(data) = data
    <3>1. 1 \in 1..(L + 1) /\ n \in (1 - 1)..L /\ L \in n..L
      BY <2>2, <1>1
    <3>2. lost \o SubSeq(data, n + 1, L) = SubSeq(data, 1, L)
      BY <3>1, ConcatAdjacentSubSeq
    <3>3. SubSeq(data, 1, L) = data
      BY SubSeqFull
    <3> QED BY <2>1, <3>2, <3>3
  <2>5. WholeLines(Trim(data))
    <3>1. /\ Len(Trim(data)) = IF n + 1 =< L THEN L - n ELSE 0
          /\ \A i \in 1..(L - n) : Trim(data)[i] = data[n + i]
      <4>1. \A i \in (n + 1)..L : data[i] \in Bytes
        BY <2>2, <1>1, ElementOfSeq
      <4> HIDE DEF L
      <4>2. /\ Len(SubSeq(data, n + 1, L)) = IF n + 1 =< L THEN L - (n + 1) + 1 ELSE 0
            /\ \A i \in 1..(L - (n + 1) + 1) : SubSeq(data, n + 1, L)[i] = data[(n + 1) + i - 1]
        BY <2>2, <1>1, <4>1, SubSeqProperties
      <4>3. L - (n + 1) + 1 = L - n /\ \A i \in 1..(L - n) : (n + 1) + i - 1 = n + i
        BY <2>2, <1>1
      <4> QED BY <2>1, <4>2, <4>3
    <3>2. n + 1 =< L
      <4>1. Trim(data) \in Seq(Bytes)
        BY TrimKeepsWholeLines
      <4>2. Len(Trim(data)) # 0
        BY <1>3, <4>1, EmptySeq
      <4> QED BY <3>1, <4>2
    <3>3. Trim(data)[L - n] = data[L]
      <4>1. L - n \in 1..(L - n) /\ n + (L - n) = L
        BY <2>2, <3>2, <1>1
      <4> QED BY <3>1, <4>1
    <3>4. data # << >>
      BY <2>2, <1>1, EmptySeq
    <3> QED BY <3>1, <3>2, <3>3, <3>4 DEF WholeLines
  <2>6. WholeLines(lost)
    BY <2>1, <2>2, <2>3 DEF WholeLines
  <2> QED BY <2>3, <2>4, <2>5, <2>6
<1> QED BY <1>2, <1>3

(* What a full buffer loses are its oldest lines, whole: what is left, with   *)
(* the new message last, is the end of all that was logged, in order, and the *)
(* buffer begins at a line again (slog/log.go:30-39).                         *)
THEOREM OnlyOldestLinesAreLost ==
    ASSUME NEW maxBufferSize \in Nat, NEW data \in Seq(Bytes), WholeLines(data),
           NEW msg \in Seq(Bytes)
    PROVE  LET new == WriteLogToBuffer(data, msg, maxBufferSize) IN
           /\ WholeLines(new)
           /\ \E lost \in Seq(Bytes) :
                /\ WholeLines(lost) /\ (lost # << >> => Len(data) > maxBufferSize)
                /\ data \o msg \o <<Newline>> = lost \o new
<1> DEFINE kept == IF Len(data) > maxBufferSize THEN Trim(data) ELSE data
           line == msg \o <<Newline>>
<1>1. PICK lost \in Seq(Bytes) :
        /\ WholeLines(lost) /\ (lost # << >> => Len(data) > maxBufferSize)
        /\ data = lost \o kept
  <2>1. CASE Len(data) > maxBufferSize
    BY <2>1, TrimCutsLines
  <2>2. CASE ~(Len(data) > maxBufferSize)
    <3>1. << >> \o data = data /\ << >> \in Seq(Bytes)
      BY ConcatEmptySeq, EmptySeq
    <3> QED BY <2>2, <3>1 DEF WholeLines
  <2> QED BY <2>1, <2>2
<1>2. kept \in Seq(Bytes)
  BY TrimKeepsWholeLines
<1>3. WriteLogToBuffer(data, msg, maxBufferSize) = kept \o msg \o <<Newline>>
  BY DEF WriteLogToBuffer
<1> HIDE DEF kept
<1>4. <<Newline>> \in Seq(Bytes) /\ Len(<<Newline>>) = 1 /\ <<Newline>>[1] = Newline
  BY DEF Bytes
<1>5. line \in Seq(Bytes)
  BY <1>4, ConcatProperties
<1>6. (kept \o msg) \o <<Newline>> = kept \o line /\ (data \o msg) \o <<Newline>> = data \o line
  <2>1. \A s \in Seq(Bytes) : (s \o msg) \o <<Newline>> = s \o (msg \o <<Newline>>)
    BY <1>4, ConcatAssociative
  <2> QED BY <1>2, <2>1
<1>7. data \o line = lost \o (kept \o line)
  BY <1>1, <1>2, <1>5, ConcatAssociative
<1>8. WholeLines(kept \o msg \o <<Newline>>)
  <2>1. kept \o msg \in Seq(Bytes)
    BY <1>2, ConcatProperties
  <2> DEFINE front == kept \o msg
  <2> HIDE DEF front
  <2>2. Len(front \o <<Newline>>) = Len(front) + 1 /\ Len(front) \in Nat
    BY <2>1, <1>4, ConcatProperties, LenProperties DEF front
  <2>3. (front \o <<Newline>>)[Len(front) + 1] = Newline
    <3>1. Len(front) + 1 \in 1..(Len(front) + Len(<<Newline>>))
          /\ ~(Len(front) + 1 <= Len(front)) /\ Len(front) + 1 - Len(front) = 1
      BY <2>2, <1>4
    <3>2. (front \o <<Newline>>)[Len(front) + 1] = <<Newline>>[Len(front) + 1 - Len(front)]
      BY <2>1, <1>4, <3>1, ConcatProperties DEF front
    <3> QED BY <3>1, <3>2, <1>4
  <2> QED BY <2>2, <2>3 DEF front, WholeLines
<1>9. data \o msg \o <<Newline>> = lost \o (kept \o msg \o <<Newline>>)
  BY <1>6, <1>7
<1> HIDE DEF line
<1> QED BY <1>1, <1>3, <1>8, <1>9
=============================================================================
