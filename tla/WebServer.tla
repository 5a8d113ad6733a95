------------------------------- MODULE WebServer -------------------------------
(***************************************************************************)
(* The web server library of OldStuff/WebServer.h, from the connection of  *)
(* a client to the command that is run for it: the input with characters   *)
(* that were read and put back, expect(), the line of the request, the     *)
(* headers, and the choice of the command.                                 *)
(*                                                                         *)
(* A client sends a request, or the beginning of one, and then hangs up or *)
(* keeps the connection open and says nothing more.  What it has sent is   *)
(* fixed when it connects: the library does nothing but read until then,   *)
(* so that only how much there is to read can make a difference.           *)
(***************************************************************************)
EXTENDS Integers, Sequences

CONSTANTS
    Requests,         \* [method, path, query, rest]: what clients ask
    Cuts,             \* how much of a request a client may send
    Methods,          \* the words getRequest() knows, in their order
    ContentLength, Authorization, EndOfHeaders,    \* those of processHeaders()
    Commands,         \* the paths of addCommand(), without the slash
    PushbackSize,     \* entries of m_pushback
    BuffLen,          \* the length of the buffer of the sketch
    CredentialsLen    \* of m_authCredentials

Blanks == {" ", "\t"}
Digits == {"0", "1", "2", "3", "4", "5", "6", "7", "8", "9"}
CR == "\r"
LineEnds == {" ", "\n", CR}

Words == {Methods[k] : k \in DOMAIN Methods} \cup {ContentLength, Authorization}
Patterns == Words \cup {EndOfHeaders}

ASSUME PatternsAssumption ==
    /\ Methods \in Seq(Seq(STRING))
    /\ \A p \in Patterns : p \in Seq(STRING) /\ p # <<>> /\ Len(p) < PushbackSize
    /\ \A p \in Words : \A k \in 1..Len(p) : p[k] # CR
    /\ Head(EndOfHeaders) = CR
    /\ \A k \in DOMAIN Methods : \A i \in 1..Len(Methods[k]) : Methods[k][i] # "/"
ASSUME SizesAssumption ==
    PushbackSize \in Nat /\ BuffLen \in Nat \ {0} /\ CredentialsLen \in Nat
ASSUME RequestsAssumption ==
    \A r \in Requests :
        /\ r.method \in Seq(STRING) /\ r.path \in Seq(STRING)
        /\ r.query \in Seq(STRING) /\ r.rest \in Seq(STRING)
ASSUME CommandsAssumption == Commands \in Seq(Seq(STRING))

VARIABLES
    pc,           \* where processConnection() is
    try,          \* which expect() of the method or of the headers is next
    conn,         \* m_pushback, what is in the socket, and the client
    asked,        \* the request of which the client sends all or a part
    sent,         \* what it sends
    type,         \* requestType: an index of Methods, 0 for INVALID
    request,      \* buff
    complete,     \* *bufflen >= 0
    credentials   \* m_authCredentials

webVars == <<pc, try, conn, asked, sent, type, request, complete, credentials>>

-------------------------------------------------------------------------------
(* Input.  m_pushback is in the order in which it will be read, that is,   *)
(* with its top first.  Of a client that was given up read() takes nothing *)
(* any more, not even what is pushed back.                                 *)

Ahead(s) == IF s.client = "stopped" THEN <<>> ELSE s.pushback \o s.input

Rest(seq, n) == SubSeq(seq, n + 1, Len(seq))

(* n calls of read(), which all give a character. *)
Dropped(s, n) ==
    [s EXCEPT !.pushback = Rest(@, n),
              !.input = IF n > Len(s.pushback) THEN Rest(@, n - Len(s.pushback)) ELSE @]

(* A call of read() that gives -1: a client that says nothing more is      *)
(* given up after a second.                                                *)
Ended(s) ==
    IF s.client = "silent" THEN [s EXCEPT !.client = "stopped", !.pushback = <<>>] ELSE s

(* Mutant: the characters are pushed back in the order they were read.     *)
PushedInOrder(s, chars) ==
    [s EXCEPT !.pushback = [i \in 1..Len(chars) |-> chars[Len(chars) + 1 - i]] \o @]

(* push(), from the last of these characters to the first: a full stack    *)
(* loses the one that was pushed last.                                     *)
Pushed(s, chars) ==
    LET all == chars \o s.pushback
    IN [s EXCEPT !.pushback =
           IF Len(all) < PushbackSize THEN all ELSE Rest(all, Len(all) - (PushbackSize - 1))]

(* Mutant: reset() leaves the pushback. *)
ResetInputOnly(s) == [s EXCEPT !.input = <<>>, !.client = "none"]

Reset(s) == [s EXCEPT !.pushback = <<>>, !.input = <<>>, !.client = "none"]

(* How many characters from the i-th on are in the set, or come before one *)
(* that is.                                                                *)
RunOf(text, i, set) ==
    CHOOSE n \in 0..Len(text) :
        /\ \A k \in i..(i + n - 1) : k <= Len(text) /\ text[k] \in set
        /\ i + n > Len(text) \/ text[i + n] \notin set

RunUntil(text, i, set) ==
    CHOOSE n \in 0..Len(text) :
        /\ \A k \in i..(i + n - 1) : k <= Len(text) /\ text[k] \notin set
        /\ i + n > Len(text) \/ text[i + n] \in set

-------------------------------------------------------------------------------
(* expect() *)

Accepts(p, s) == Len(p) <= Len(Ahead(s)) /\ SubSeq(Ahead(s), 1, Len(p)) = p

(* How many characters are as in the pattern. *)
Agree(p, s) ==
    CHOOSE n \in 0..Len(p) :
        /\ n <= Len(Ahead(s)) /\ SubSeq(Ahead(s), 1, n) = SubSeq(p, 1, n)
        /\ n < Len(p) /\ n < Len(Ahead(s)) => Ahead(s)[n + 1] # p[n + 1]

(* The input after expect() has failed: the character that is wrong and    *)
(* those before it are pushed back.                                        *)
Rejected(p, s) ==
    LET n == Agree(p, s)
    IN IF n < Len(Ahead(s))
       THEN Pushed(Dropped(s, n + 1), SubSeq(p, 1, n) \o <<Ahead(s)[n + 1]>>)
       ELSE Pushed(Ended(Dropped(s, n)), SubSeq(p, 1, n))

-------------------------------------------------------------------------------
(* processConnection() *)

Text(r) == r.method \o r.path \o r.query \o r.rest

HeaderNames == <<ContentLength, Authorization, EndOfHeaders>>

Expected == IF pc = "request" THEN Methods ELSE HeaderNames

(* The next client of the server; the library takes no other meanwhile.    *)
Connects ==
    /\ pc = "idle" /\ pc' = "request" /\ try' = 1
    /\ \E r \in Requests : \E n \in (Cuts \cap 0..Len(Text(r))), client \in {"silent", "gone"} :
          /\ asked' = r
          /\ sent' = SubSeq(Text(r), 1, n)
          /\ conn' = [conn EXCEPT !.input = sent', !.client = client]
    /\ type' = 0 /\ request' = <<>> /\ complete' = TRUE
    /\ UNCHANGED credentials

(* An expect() that fails, and the next one. *)
Expects ==
    /\ pc \in {"request", "headers"} /\ try <= Len(Expected)
    /\ ~Accepts(Expected[try], conn)
    /\ conn' = Rejected(Expected[try], conn)
    /\ try' = try + 1
    /\ UNCHANGED <<pc, asked, sent, type, request, complete, credentials>>

(* getRequest() knows no other method. *)
GetsInvalid ==
    /\ pc = "request" /\ try > Len(Methods)
    /\ pc' = "command"
    /\ UNCHANGED <<try, conn, asked, sent, type, request, complete, credentials>>

(* Mutant: processHeaders() does not clear the credentials first.          *)
ClearedNever == credentials

Cleared == <<>>

(* How much of a URL of this length is stored. *)
Stored(n) == IF n < BuffLen THEN n ELSE BuffLen - 1

(* The rest of the line of the request, as much of its URL as fits; the    *)
(* end of the input ends the URL as well.                                  *)
GetRequest ==
    /\ pc = "request" /\ try <= Len(Methods) /\ Accepts(Methods[try], conn)
    /\ LET s == Dropped(conn, Len(Methods[try]))
           n == RunUntil(Ahead(s), 1, LineEnds)
       IN /\ request' = SubSeq(Ahead(s), 1, Stored(n))
          /\ complete' = (n < BuffLen)
          /\ conn' = IF n < Len(Ahead(s)) THEN Dropped(s, n + 1) ELSE Ended(Dropped(s, n))
    /\ type' = try
    /\ pc' = "headers" /\ try' = 1
    /\ credentials' = Cleared
    /\ UNCHANGED <<asked, sent>>

(* Mutant: readInt() keeps the character behind the number.                *)
ReadIntKeeps(s, n) == IF n < Len(Ahead(s)) THEN Dropped(s, n + 1) ELSE Ended(Dropped(s, n))

(* readInt(), behind n characters of blanks, sign and digits. *)
ReadInt(s, n) ==
    IF n < Len(Ahead(s)) THEN Pushed(Dropped(s, n + 1), <<Ahead(s)[n + 1]>>)
    ELSE Ended(Dropped(s, n))

HeaderLength ==
    LET s == Dropped(conn, Len(ContentLength))
        blanks == RunOf(Ahead(s), 1, Blanks)
        sign == IF blanks < Len(Ahead(s)) /\ Ahead(s)[blanks + 1] = "-" THEN 1 ELSE 0
        digits == RunOf(Ahead(s), blanks + sign + 1, Digits)
    IN /\ pc = "headers" /\ try = 1 /\ Accepts(ContentLength, conn)
       /\ conn' = ReadInt(s, blanks + sign + digits)
       /\ UNCHANGED <<pc, try, asked, sent, type, request, complete, credentials>>

(* readHeader() takes the first character behind the blanks whatever it    *)
(* is, and then waits for the end of a line, for ever if there is none.    *)
HeaderAuthorization ==
    LET s == Dropped(conn, Len(Authorization))
        blanks == RunOf(Ahead(s), 1, Blanks)
        n == 1 + RunUntil(Ahead(s), blanks + 2, {CR})
        room == IF n < CredentialsLen - 1 THEN n ELSE CredentialsLen - 2
    IN /\ pc = "headers" /\ try = 2 /\ Accepts(Authorization, conn)
       /\ IF blanks + n < Len(Ahead(s))
          THEN /\ credentials' = SubSeq(Ahead(s), blanks + 1, blanks + room)
               /\ conn' = Pushed(Dropped(s, blanks + n + 1), <<CR>>)
               /\ pc' = pc /\ try' = 1
          ELSE /\ conn' = Ended(Dropped(s, Len(Ahead(s))))
               /\ pc' = "hung"
               /\ UNCHANGED <<try, credentials>>
       /\ UNCHANGED <<asked, sent, type, request, complete>>

HeadersEnd ==
    /\ pc = "headers" /\ try = 3 /\ Accepts(EndOfHeaders, conn)
    /\ conn' = Dropped(conn, Len(EndOfHeaders))
    /\ pc' = "command"
    /\ UNCHANGED <<try, asked, sent, type, request, complete, credentials>>

(* Mutant: the end of the input is not looked for. *)
AfterCharacterGoesOn(s) == "headers"

AfterCharacter(s) == IF Ahead(s) = <<>> THEN "command" ELSE "headers"

(* Anything else: a character is absorbed, if there is one. *)
HeaderCharacter ==
    /\ pc = "headers" /\ try = 4
    /\ conn' = IF Ahead(conn) = <<>> THEN Ended(conn) ELSE Dropped(conn, 1)
    /\ pc' = AfterCharacter(conn) /\ try' = 1
    /\ UNCHANGED <<asked, sent, type, request, complete, credentials>>

-------------------------------------------------------------------------------
(* dispatchCommand(), with an empty prefix *)

(* Mutant: a command whose path begins as the URL does is taken. *)
CommandOfPrefix(url) ==
    LET name == Rest(url, 1)
        known == {k \in DOMAIN Commands : Len(Commands[k]) <= Len(name)
                      /\ SubSeq(name, 1, Len(Commands[k])) = Commands[k]}
    IN IF url \in {<<>>, <<"/">>} \/ (Len(url) > 1 /\ SubSeq(url, 1, 2) = <<"/", "?">>) THEN -1
       ELSE IF Head(url) = "/" /\ known # {} THEN CHOOSE k \in known : \A j \in known : k <= j
       ELSE 0

(* Where the parameters begin: behind the first question mark. *)
PathLength(url) == RunUntil(url, 1, {"?"})

(* The number of the command, -1 for the default and 0 for the failure     *)
(* command.                                                                *)
Command(url) ==
    LET name == SubSeq(url, 2, PathLength(url))
        known == {k \in DOMAIN Commands : Commands[k] = name}
    IN IF url \in {<<>>, <<"/">>} \/ (Len(url) > 1 /\ SubSeq(url, 1, 2) = <<"/", "?">>) THEN -1
       ELSE IF Head(url) = "/" /\ known # {} THEN CHOOSE k \in known : \A j \in known : k <= j
       ELSE 0

(* url_tail of that command. *)
UrlTail(url) == Rest(url, PathLength(url) + 1)

Called == IF type = 0 THEN 0 ELSE Command(request)

(* The command has written its page. *)
CommandReturns ==
    /\ pc' = "idle"
    /\ conn' = Reset(conn)
    /\ UNCHANGED <<try, asked, sent, type, request, complete, credentials>>

RunsCommand == pc = "command" /\ CommandReturns

-------------------------------------------------------------------------------
Init ==
    /\ pc = "idle" /\ try = 1 /\ conn = [pushback |-> <<>>, input |-> <<>>, client |-> "none"]
    /\ asked = (CHOOSE r \in Requests : TRUE) /\ sent = <<>>
    /\ type = 0 /\ request = <<>> /\ complete = TRUE
    /\ credentials = <<>>

(* processConnection() up to the command. *)
Reads ==
    \/ Expects \/ GetsInvalid \/ GetRequest
    \/ HeaderLength \/ HeaderAuthorization \/ HeadersEnd \/ HeaderCharacter

Next == Connects \/ Reads \/ RunsCommand

Spec == Init /\ [][Next]_webVars

-------------------------------------------------------------------------------
(* Properties *)

(* What the program will still read is the end of what this client has     *)
(* sent: however often expect() tries and fails, no character is lost, is  *)
(* read twice or changes its place, and none is left of an earlier client. *)
(* So the stack of characters pushed back always has room, too: nothing in *)
(* the code would notice if it had not (WebServer.h:799).                  *)
StreamKept ==
    \E n \in 0..Len(sent) :
        /\ conn.client # "none" => Ahead(conn) = Rest(sent, n)
        /\ conn.client = "none" => Ahead(conn) = <<>>

(* The credentials a command checks are the words of this client.          *)
CredentialsOwn ==
    pc = "command" /\ type # 0 =>
        \E n \in 0..Len(sent) :
            /\ n + Len(credentials) <= Len(sent)
            /\ credentials = SubSeq(sent, n + 1, n + Len(credentials))

Url(r) == r.path \o r.query

(* A request as HTTP has it: a slash begins its path, a question mark its  *)
(* query, a blank or the end of the line comes behind them; and if it      *)
(* begins with a word getRequest() knows, that is its method.              *)
WellFormed(r) ==
    /\ r.path # <<>> /\ Head(r.path) = "/" /\ (r.query # <<>> => Head(r.query) = "?")
    /\ \A k \in 1..Len(r.path) : r.path[k] # "?"
    /\ \A k \in 1..Len(Url(r)) : Url(r)[k] \notin LineEnds
    /\ r.rest # <<>> => Head(r.rest) \in LineEnds
    /\ \A k \in DOMAIN Methods :
          Methods[k] = SubSeq(Text(r), 1, Len(Methods[k])) => r.method = Methods[k]

(* The command that should run for a request. *)
Wanted(r) ==
    LET named == {k \in DOMAIN Commands : r.path = <<"/">> \o Commands[k]}
    IN IF \A k \in DOMAIN Methods : r.method # Methods[k] THEN 0
       ELSE IF r.path = <<"/">> THEN -1
       ELSE IF named # {} THEN CHOOSE k \in named : \A j \in named : k <= j
       ELSE 0

(* A request whose line has arrived, and whose URL fits, runs the command  *)
(* of its path, for its method and with its parameters; of a longer URL as *)
(* much is stored as leaves room for the end of the string.                *)
DispatchedRight ==
    (pc = "command" /\ WellFormed(asked) /\ Len(sent) > Len(asked.method) + Len(Url(asked))) =>
        /\ type # 0 =>
              /\ Methods[type] = asked.method
              /\ Len(request) < BuffLen /\ request = SubSeq(Url(asked), 1, Len(request))
        /\ Len(Url(asked)) < BuffLen =>
              Called = Wanted(asked) /\ (type # 0 => request = Url(asked))

(* Behind its first e characters, which hold the line of the request, the  *)
(* headers of a request end.                                               *)
HeadersOver(r, e) ==
    /\ e > Len(r.method) + Len(Url(r)) /\ e + Len(EndOfHeaders) <= Len(Text(r))
    /\ SubSeq(Text(r), e + 1, e + Len(EndOfHeaders)) = EndOfHeaders

(* The last of them is a header "Authorization:" without a value.          *)
WithoutValue(r, e) ==
    \E i \in 0..(e - Len(Authorization)) :
        /\ SubSeq(Text(r), i + 1, i + Len(Authorization)) = Authorization
        /\ \A k \in (i + Len(Authorization) + 1)..e : Text(r)[k] \in Blanks

(* A client that sends a whole request and waits is not given up before    *)
(* its page is written, and does not make the server wait for ever.  A     *)
(* header "Authorization:" without a value is the exception: readHeader()  *)
(* takes the end of its line for the value.                                *)
NotGivenUp ==
    (/\ sent = Text(asked) /\ WellFormed(asked)
     /\ \E e \in 1..Len(sent) : HeadersOver(asked, e) /\ ~WithoutValue(asked, e))
    => conn.client # "stopped" /\ pc # "hung"

(* The server comes back to its loop from every client, wherever that      *)
(* stops: each step of its loops leaves less to read, or the same and      *)
(* fewer words to try.  The exception is a client that is gone before the  *)
(* line of its Authorization has ended: readHeader() waits for ever.       *)
RoundsEnd ==
    [][(pc \in {"request", "headers"} /\ pc' = pc) =>
          \/ Len(Ahead(conn')) < Len(Ahead(conn))
          \/ Len(Ahead(conn')) = Len(Ahead(conn)) /\ try' > try]_webVars
===============================================================================
