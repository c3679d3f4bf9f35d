---------------------------- MODULE HttpServer ----------------------------
(***************************************************************************)
(* The HTTP server that answers the statistics queries.  A connection's    *)
(* input is a byte stream that arrives in pieces; after each piece         *)
(* hts_parse_execute reads it from its start with an automaton, answers    *)
(* the requests that are complete and leaves the rest.  The stream is a    *)
(* sequence of units: a blank, a colon, the two line ends, a digit, or a   *)
(* piece of a word (each word that matters to the parser is two units, so  *)
(* that it can be cut in the middle).                                      *)
(***************************************************************************)
EXTENDS Integers, Sequences, SequencesExt

CONSTANTS HttpStreams,   \* what a client may send: sequences of requests, each with
                         \* its units, the answer it deserves, does it keep the
                         \* connection open
          HttpPieces,    \* bound: the sizes of the pieces (the rest of the stream, too)
          MaxHeader,     \* MAX_HTTP_HEADER_SIZE
          MaxWord,       \* the longest word
          IntLimit       \* a number that reaches it is not multiplied by 10 again

VARIABLES hstream,  \* the requests of the client
          hsent,    \* the units of them that have arrived
          hin,      \* c->in: the units not yet consumed
          hout,     \* the answers
          hopen     \* is the connection open, after connection_write_close not

httpVars == <<hstream, hsent, hin, hout, hopen>>

HttpUnits(reqs) == FlattenSeq([i \in DOMAIN reqs |-> reqs[i].units])

HttpTypeOK ==
  /\ hstream \in HttpStreams /\ hsent \in 0 .. Len(HttpUnits(hstream))
  /\ Len(hin) <= hsent /\ hopen \in BOOLEAN
  /\ \A i \in DOMAIN hout : hout[i] \in {200, 400, 404, 411, 413, 501}

HttpInit ==
  /\ hstream \in HttpStreams
  /\ hsent = 0 /\ hin = <<>> /\ hout = <<>> /\ hopen = TRUE

----------------------------------------------------------------------------
(* The units and the words the parser knows.                               *)

CR == "cr"

LF == "lf"

Digits == <<"0", "1", "2", "3", "4", "5", "6", "7", "8", "9">>

IsDigit(u) == u \in Range(Digits)

DigitOf(u) == (CHOOSE i \in 1 .. 10 : Digits[i] = u) - 1

IsWordUnit(u) == u \notin {" ", "tab", CR, LF}

QueryType(w) ==
  CASE w = <<"GE", "T">> -> "get"
    [] w = <<"PO", "ST">> -> "post"
    [] w = <<"HE", "AD">> -> "head"
    [] w = <<"OPT", "IONS">> -> "options"
    [] OTHER -> "error"

Version(w) ==
  CASE w = <<>> -> 9
    [] w = <<"HTTP/1.", "0">> -> 256
    [] w = <<"HTTP/1.", "1">> -> 257
    [] OTHER -> 0

HeaderFlags(w, flags) ==
  CASE w = <<"ho", "st">> -> flags \cup {"host"}
    [] w = <<"connec", "tion">> -> flags \cup {"connection"}
    [] w = <<"content-", "length">> -> flags \cup {"datasize"}
    [] OTHER -> flags \ {"host", "datasize", "connection"}

----------------------------------------------------------------------------
(* The automaton.  d is the state of the query (struct hts_data); each     *)
(* operator is a case of the switch, for the unit u at the pointer, and    *)
(* says whether the pointer moves on.                                      *)

NewQuery == [st |-> "readtospace", word |-> <<>>, words |-> 0, type |-> "none", ver |-> 0,
             flags |-> {}, size |-> -1, header |-> 0, uri |-> <<>>]

Stay(d) == [d |-> d, eat |-> FALSE]

Eat(d) == [d |-> d, eat |-> TRUE]

To(d, st) == [d EXCEPT !.st = st]

Erring(d, st) == [d EXCEPT !.st = st, !.flags = @ \cup {"error"}]

\* A word has ended: the method, the address, the version, or a header's value.
EndOfWord(d) ==
  LET e == [d EXCEPT !.words = @ + 1, !.header = @ + Len(d.word)]
      t == QueryType(d.word)
      v == Version(d.word)
  IN  CASE e.words = 1 ->
             IF t = "error" THEN Erring([e EXCEPT !.type = t], "skiptoeoln")
                            ELSE To([e EXCEPT !.type = t], "skipspc")
        [] e.words = 2 ->
             IF d.word = <<>> THEN Erring(e, "skiptoeoln")
                              ELSE To([e EXCEPT !.uri = d.word], "skipspc")
        [] e.words = 3 ->
             IF v = 0 THEN Erring(e, "skiptoeoln")
                      ELSE To([e EXCEPT !.ver = v], "skipspctoeoln")
        [] OTHER ->
             LET keep == "host" \notin d.flags /\ d.word = <<"keep-", "alive">>
             IN  To([e EXCEPT !.flags = (@ \ {"host", "connection"})
                                         \cup (IF keep THEN {"keepalive"} ELSE {})],
                    "skipspctoeoln")

ReadToSpace(d, u) ==
  IF IsWordUnit(u)
  THEN LET e == [d EXCEPT !.word = Append(@, u)]
       IN  Eat(IF Len(e.word) > MaxWord THEN To(e, "fatal") ELSE e)
  ELSE Stay(EndOfWord(d))

\* What comes after the blanks.
AfterBlanks(d) ==
  CASE d.st = "skipspctoeoln" -> To(d, "eoln")
    [] d.st = "skipspc" /\ d.words < 3 -> To([d EXCEPT !.word = <<>>], "readtospace")
    [] d.st = "skipspc" /\ d.words >= 3 /\ "datasize" \in d.flags ->
         IF d.size # -1 THEN Erring(d, "skiptoeoln") ELSE To([d EXCEPT !.size = 0], "readint")
    [] d.st = "skipspc" /\ d.words >= 3 /\ "datasize" \notin d.flags ->
         IF d.flags \cap {"host", "connection"} # {}
         THEN To([d EXCEPT !.word = <<>>], "readtospace")
         ELSE To(d, "skiptoeoln")

Longer(d) ==
  LET e == [d EXCEPT !.header = @ + 1]
  IN  IF e.header >= MaxHeader THEN To(e, "fatal") ELSE e

SkipSpc(d, u) ==
  IF u = " " \/ (u = "tab" /\ d.words >= 8) THEN Eat(Longer(d)) ELSE Stay(AfterBlanks(d))

ReadToColon(d, u) ==
  CASE u = ":" ->
         Eat(To([d EXCEPT !.flags = HeaderFlags(d.word, @), !.header = @ + Len(d.word) + 1],
                "skipspc"))
    [] u # ":" /\ IsWordUnit(u) ->
         LET e == [d EXCEPT !.word = Append(@, u)]
         IN  Eat(IF Len(e.word) > MaxWord THEN To(e, "fatal") ELSE e)
    [] OTHER -> Stay(Erring([d EXCEPT !.header = @ + Len(d.word)], "skiptoeoln"))

\* A number too large sets QF_ERROR, and is then read as if it had ended.
ReadInt(d, u) ==
  CASE IsDigit(u) /\ d.size < IntLimit ->
         Eat([d EXCEPT !.size = @ * 10 + DigitOf(u), !.header = @ + 1,
                       !.flags = @ \ {"datasize"}])
    [] IsDigit(u) /\ d.size >= IntLimit -> Stay(Erring(d, "skipspctoeoln"))
    [] ~IsDigit(u) /\ "datasize" \in d.flags -> Stay(Erring(d, "skiptoeoln"))
    [] OTHER -> Stay(To(d, "skipspctoeoln"))

SkipToEoln(d, u) == IF u \in {CR, LF} THEN Stay(To(d, "eoln")) ELSE Eat(Longer(d))

Eoln(d, u) ==
  IF u = CR THEN Eat(To([d EXCEPT !.header = @ + 1], "wantlf")) ELSE Stay(To(d, "wantlf"))

\* The first line that ends is the request line: an error there is fatal.
WantLf(d, u) ==
  LET e == [d EXCEPT !.words = IF @ + 1 < 8 THEN 8 ELSE @ + 1]
  IN  CASE d.words + 1 < 8 /\ "error" \in d.flags -> Stay(To(e, "fatal"))
        [] ~(d.words + 1 < 8 /\ "error" \in d.flags) /\ d.ver <= 9 -> Stay(To(e, "wantlastlf"))
        [] ~(d.words + 1 < 8 /\ "error" \in d.flags) /\ d.ver > 9 ->
             IF u = LF THEN Eat(To([e EXCEPT !.header = @ + 1], "linestart"))
                       ELSE Stay(Erring(e, "skiptoeoln"))

LineStart(d, u) ==
  CASE u = CR -> Eat(To([d EXCEPT !.header = @ + 1], "wantlastlf"))
    [] u = LF -> Stay(To(d, "wantlastlf"))
    [] OTHER -> Stay(IF "error" \in d.flags THEN To(d, "skiptoeoln")
                     ELSE To([d EXCEPT !.word = <<>>], "readtocolon"))

\* Mutant of WantLastLf: the last line end is not counted as part of the header.
WantLastLfShort(d, u) == IF u = LF THEN Eat(To(d, "done")) ELSE Stay(To(d, "fatal"))

WantLastLf(d, u) ==
  IF u = LF THEN Eat(To([d EXCEPT !.header = @ + 1], "done")) ELSE Stay(To(d, "fatal"))

ParseStep(d, u) ==
  CASE d.st = "readtospace" -> ReadToSpace(d, u)
    [] d.st \in {"skipspc", "skipspctoeoln"} -> SkipSpc(d, u)
    [] d.st = "readtocolon" -> ReadToColon(d, u)
    [] d.st = "readint" -> ReadInt(d, u)
    [] d.st = "skiptoeoln" -> SkipToEoln(d, u)
    [] d.st = "eoln" -> Eoln(d, u)
    [] d.st = "wantlf" -> WantLf(d, u)
    [] d.st = "linestart" -> LineStart(d, u)
    [] d.st = "wantlastlf" -> WantLastLf(d, u)
    [] d.st = "fatal" -> Stay(Erring(d, "done"))

RECURSIVE Feed(_, _)
Feed(d, u) ==
  IF d.st = "done" THEN d
  ELSE LET r == ParseStep(d, u) IN IF r.eat THEN r.d ELSE Feed(r.d, u)

\* The query at the start of the input, complete or not.
QueryIn(in) == FoldLeft(Feed, NewQuery, in)

----------------------------------------------------------------------------
(* Queries.                                                                *)

\* hts_stats_execute, for a client on the proxy's own host: the answer, and
\* whether the query may keep the connection.
StatsExecute(d) ==
  IF d.type # "get" \/ d.size # -1 THEN [code |-> 501, keep |-> FALSE]
  ELSE [code |-> IF d.uri = <<"/st", "ats">> THEN 200 ELSE 404, keep |-> TRUE]

\* What hts_parse_execute answers to a query that is done.
Answer(d) ==
  CASE "error" \in d.flags \/ d.header >= MaxHeader -> [code |-> 400, keep |-> FALSE]
    [] ~("error" \in d.flags \/ d.header >= MaxHeader) /\ d.type = "post" /\ d.size < 0 ->
         [code |-> 411, keep |-> TRUE]
    [] ~("error" \in d.flags \/ d.header >= MaxHeader) /\ d.type # "post" /\ d.size > 0 ->
         [code |-> 413, keep |-> FALSE]
    [] OTHER -> StatsExecute(d)

\* The whole input: a query is answered, its header skipped, and the next one
\* read, until the connection is to be closed or the rest is incomplete.
RECURSIVE ParseExecute(_, _)
ParseExecute(in, out) ==
  LET d == QueryIn(in)
      a == Answer(d)
      rest == SubSeq(in, d.header + 1, Len(in))
  IN  IF in = <<>> \/ d.st # "done" THEN [in |-> in, out |-> out, open |-> TRUE]
      ELSE IF a.keep /\ "keepalive" \in d.flags
           THEN ParseExecute(rest, Append(out, a.code))
           ELSE [in |-> rest, out |-> Append(out, a.code), open |-> FALSE]

\* The next n units arrive.
HttpRecv(n) ==
  /\ hopen /\ hsent + n <= Len(HttpUnits(hstream))
  /\ \E p \in {ParseExecute(hin \o SubSeq(HttpUnits(hstream), hsent + 1, hsent + n), hout)} :
       hin' = p.in /\ hout' = p.out /\ hopen' = p.open
  /\ hsent' = hsent + n
  /\ UNCHANGED hstream

HttpNext ==
  \E n \in HttpPieces \cup {Len(HttpUnits(hstream)) - hsent} : n > 0 /\ HttpRecv(n)

HttpSpec == HttpInit /\ [][HttpNext]_httpVars

----------------------------------------------------------------------------
(* Properties.                                                             *)

\* The answers a client should get: one to each request, in order, to the
\* first that closes the connection.
RECURSIVE Deserved(_)
Deserved(reqs) ==
  IF reqs = <<>> THEN <<>>
  ELSE <<Head(reqs).code>> \o (IF Head(reqs).keep THEN Deserved(Tail(reqs)) ELSE <<>>)

\* However the stream is cut into pieces, the answers are those the requests
\* deserve, in order and each once: no cut inside a word, a number or a line
\* end, and no request that shares a piece with the next one, changes what
\* the parser sees.
HttpAsSent ==
  /\ IsPrefix(hout, Deserved(hstream))
  /\ hsent = Len(HttpUnits(hstream)) => hout = Deserved(hstream)

=============================================================================
