----------------------------- MODULE MCXrayText -----------------------------
(* XrayConfig and LogBuffer against the loops of the code, written as such, *)
(* on every small input.                                                    *)
EXTENDS XrayConfig, LogBuffer

Upto(n, S) == UNION {[1..m -> S] : m \in 0..n}

SmallTexts ==
    [json : BOOLEAN, array : BOOLEAN,
     inbounds : Upto(3, Inbound({"socks", "http"}, {"absent", "old", "new"}))]

(* inboundsResult.ForEach: from index i on, stop at the first socks inbound. *)
ForEach(inbounds, port) ==
    LET loop[i \in 1..(Len(inbounds) + 1)] ==
            IF i > Len(inbounds) THEN inbounds
            ELSE IF inbounds[i].protocol = "socks" THEN [inbounds EXCEPT ![i].port = port]
            ELSE loop[i + 1]
    IN loop[1]

ASSUME ReplacesAsTheLoop ==
    \A text \in SmallTexts :
        replaceInboundSocksPort(text, "new") = [text EXCEPT !.inbounds = ForEach(@, "new")]

(* A text that is not replaceable is never loaded, and never written. *)
ASSUME OnlyReplaceableTextsLoad ==
    \A text \in SmallTexts, isStr \in BOOLEAN : \A o \in loadServer(text, isStr, "new") :
        /\ o.loaded => Replaceable(text)
        /\ isStr \/ ~Replaceable(text) => o.file = text

(* bytes.IndexByte in the second half, and what follows it. *)
AfterNewline(data) ==
    LET loop[i \in 1..(Len(data) + 1)] ==
            IF i > Len(data) THEN << >>
            ELSE IF data[i] = Newline THEN SubSeq(data, i + 1, Len(data))
            ELSE loop[i + 1]
    IN loop[Len(data) \div 2 + 1]

ASSUME TrimsAsTheCode == \A data \in Upto(7, Bytes) \ {<< >>} : Trim(data) = AfterNewline(data)

(* One message more keeps the buffer within its bound. *)
ASSUME WritesAreBounded ==
    \A max \in 0..2 : \A data \in Upto(max + 3, Bytes), msg \in Upto(2, Bytes) :
        Len(data) =< max + Len(msg) + 1 /\ Len(msg) =< max
            => Len(WriteLogToBuffer(data, msg, max)) =< max + Len(msg) + 1
=============================================================================
