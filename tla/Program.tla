------------------------------ MODULE Program ------------------------------
(***************************************************************************)
(* Main.cpp from end to end: the configuration is loaded, the server       *)
(* starts, and a client like TCP_Client.c connects, sends a request and    *)
(* waits for the answer, which HttpData reads, parses and answers from a   *)
(* file.  The network cuts the request where it likes, and files change    *)
(* while they are served.                                                  *)
(*                                                                         *)
(* Server.tla has the select loop for many connections and writen's        *)
(* partial writes; here there is one connection (a bound), and what is     *)
(* written goes out at once.                                               *)
(*                                                                         *)
(* An operator that stands directly before the one it varies               *)
(* (CopyCurrent before Copied) is a slip the properties must notice, used  *)
(* by no action.                                                           *)
(***************************************************************************)
EXTENDS Config, HttpRequest, TLC, SequencesExt

CONSTANTS
  Files,     \* what myWebServer.conf may be: lines, Absent or Unreadable
  Absent,    \* no such file
  Unreadable,\* fopen succeeds, fgets does not: a directory
  Requests,  \* what the client may send
  RecvSize,  \* what recv is told: 65535
  Sizes,     \* bytes of the file asked for; Absent or Directory besides
  Directory,
  Page       \* bytes of a page of memory

ASSUME ProgramAssumption ==
  /\ LineSize \in Nat /\ NameSize \in Nat /\ ContentSize \in Nat
  /\ {"SP", "CR", "LF", "="} \subseteq DOMAIN Width
  /\ \A t \in DOMAIN Width : Width[t] \in 1..LineSize - 1
  /\ Sizes \subseteq Nat /\ Page \in Nat \ {0} /\ RecvSize \in Nat \ {0}
  /\ Absent \notin Nat /\ Directory \notin Nat
  /\ DOMAIN LowerCase \cap {"ip", "fileroot", "listenport"} = {}

VARIABLES
  main,       \* control point of the server's thread
  conf,       \* the configuration file
  rest,       \* what of it has not been read
  items,      \* m_ConfigItemList
  conn,       \* the connection: "none", "backlog", "open", "closed", "reset"
  request,    \* what the client sends
  onWay,      \* sent and not arrived
  inbox,      \* arrived and not received
  recvBuffer, \* _recv_Buffer (empty behind ParseRequest, like the next two)
  pos,        \* ParseRequest's pos
  parsed,     \* _method, _filename, _httpVersion
  headers,    \* _headers
  file,       \* the file asked for: by its name, and by src_fd once it is open
  srcStat,    \* src_stat.st_size (0 outside HandleWrite, where file is Absent)
  answers,    \* history: the responses sent, and whether the file was stable
  client,     \* control point of the client
  taken,      \* how many responses it has received
  whole,      \* history: the last recv took the request in one piece
  changed     \* history: the file has changed since stat

config  == <<conf, rest, items>>
socket  == <<conn, onWay, inbox>>
parser  == <<recvBuffer, pos, parsed, headers, whole>>
disk    == <<file, srcStat, changed>>
peer    == <<request, client, taken>>
vars == <<main, config, socket, parser, disk, answers, peer>>

-----------------------------------------------------------------------------
(* Texts: a configuration line and a request as they are written.          *)

SettingText(line) ==
  IF line.name = <<>> THEN <<>>
  ELSE line.name \o line.before \o <<"=">> \o line.after \o line.value
TextOf(line) == line.indent \o SettingText(line) \o line.end
ConfText(f) == FlattenSeq([k \in 1..Len(f) |-> TextOf(f[k])])

\* It is written in lines: a line feed ends all of them but perhaps the last,
\* blanks stand around the name and the value and not at their ends.  A line
\* that sets nothing is empty, or has no "=", or shows by its first symbol
\* that it is indented, a section or a comment.
Tokens == DOMAIN Width
Passed == {";", "SP", "#", "TAB", "["}
SetsNothing(h) ==
  h.name = <<>> /\ \A i \in 1..Len(h.indent) : h.indent[i] # "="
LineParts ==
  {h \in [indent : Seq(Tokens \ {"LF"}), name : Seq(Tokens \ {"LF", "="}),
          before : Seq({"SP"}), after : Seq({"SP"}),
          value : Seq(Tokens \ {"LF"}), end : Seq({"SP", "CR", "LF"})] :
     /\ h.indent # <<>> => Head(h.indent) \in Passed \/ SetsNothing(h)
     /\ h.name # <<>> => Head(h.name) \notin Passed /\ Last(h.name) # "SP"
     /\ h.name = <<>> => h.indent # <<>> \/ h.end # <<>>
     /\ h.value # <<>> =>
          Head(h.value) # "SP" /\ Last(h.value) \notin {"SP", "CR"}
     /\ \A i \in 1..Len(h.end) : h.end[i] = "LF" => i = Len(h.end)}
Lined(f) ==
  /\ f \in Seq(LineParts)
  /\ \A k \in 1..Len(f) - 1 : f[k].end # <<>> /\ Last(f[k].end) = "LF"
ASSUME FileAssumption == \A f \in Files \ {Absent, Unreadable} : Lined(f)

HeaderText(h) == h.key \o <<":">> \o h.blanks \o h.value \o <<"CR", "LF">>
Version == <<"1", ".", "1">>
LineText(r) ==
  <<r.method, "SP", "/">> \o r.name \o r.query \o <<"SP", "HTTP", "/">>
    \o Version
HeaderTexts(r) == [k \in 1..Len(r.headers) |-> HeaderText(r.headers[k])]
BehindText(r) == FlattenSeq(HeaderTexts(r)) \o <<"CR", "LF">> \o r.body
Text(r) == LineText(r) \o <<"CR", "LF">> \o BehindText(r)

\* What a client may send has a length and symbols.
Symbols == UNION {{Text(r)[k] : k \in 1..Len(Text(r))} : r \in Requests}
ASSUME TextAssumption == \A r \in Requests : Text(r) \in Seq(Symbols)

\* It is a request: what separates its parts is in none of them, a query
\* begins with its "?", a value with no blank, and size_t counts it all.
HeaderParts ==
  {h \in [key : Seq(STRING \ {":", "CR"}), blanks : Seq({"SP"}),
          value : Seq(STRING \ {"CR"})] :
     h.value # <<>> => Head(h.value) # "SP"}
WellFormed(r) ==
  /\ r.method \in STRING \ {"SP", "CR"}
  /\ r.name \in Seq(STRING \ {"SP", "CR", "?"})
  /\ r.query \in Seq(STRING \ {"SP", "CR"})
  /\ r.query # <<>> => Head(r.query) = "?"
  /\ r.headers \in Seq(HeaderParts)
  /\ r.body \in Seq(STRING)
  /\ Len(Text(r)) < SizeT
ASSUME RequestAssumption == \A r \in Requests : WellFormed(r)

-----------------------------------------------------------------------------
(* main: CConfig::Load                                                     *)

Fopen ==
  /\ main = "fopen"
  /\ main' = IF conf = Absent THEN "exited" ELSE "load"
  /\ UNCHANGED <<config, socket, parser, disk, answers, peer>>

\* fgets returns NULL for an error, feof stays false, and so it goes on.
ReadFails ==
  /\ main = "load" /\ conf = Unreadable
  /\ UNCHANGED vars

LoadLine ==
  /\ main = "load" /\ rest # <<>>
  /\ \E line \in {Fgets(rest)} : \E text \in {Stripped(line)} :
       /\ rest' = SubSeq(rest, Len(line) + 1, Len(rest))
       /\ \/ /\ Ignored(line)
             /\ UNCHANGED <<main, items>>
          \/ /\ ~Ignored(line) /\ Overruns(text)
             /\ main' = "undefined" /\ UNCHANGED items
          \/ /\ ~Ignored(line) /\ ~Overruns(text)
             /\ items' = Append(items, Store(text))
             /\ UNCHANGED main
  /\ UNCHANGED <<conf, socket, parser, disk, answers, peer>>

LoadDone ==
  /\ main = "load" /\ conf # Unreadable /\ rest = <<>>
  /\ main' = "settings"
  /\ UNCHANGED <<config, socket, parser, disk, answers, peer>>

-----------------------------------------------------------------------------
(* main: the settings, and the server's start.                             *)

Ip == GetString(items, <<"ip">>)
FileRoot == GetString(items, <<"fileroot">>)
\* An int is passed to a uint16_t.
Ports == 0..65535
Port == GetInt(items, <<"listenport">>, 12345) % 65536

\* A string made of nullptr throws, which nobody catches.
GetSettings ==
  /\ main = "settings"
  /\ main' = IF Ip = Null \/ FileRoot = Null THEN "killed" ELSE "start"
  /\ UNCHANGED <<config, socket, parser, disk, answers, peer>>

\* socket, bind and listen, each of which ends the program if it fails.
ServerStart ==
  /\ main = "start"
  /\ main' \in {"select", "exited"}
  /\ UNCHANGED <<config, socket, parser, disk, answers, peer>>

AcceptConnection ==
  /\ main = "select" /\ conn = "backlog"
  /\ conn' = "open"
  /\ UNCHANGED <<main, config, onWay, inbox, parser, disk, answers, peer>>

\* The connection can be read: data, or the client's end of file.
SelectConnection ==
  /\ main = "select" /\ conn = "open"
  /\ inbox # <<>> \/ client \in {"ended", "failed"}
  /\ main' = "recv"
  /\ UNCHANGED <<config, socket, parser, disk, answers, peer>>

-----------------------------------------------------------------------------
(* httpRecvandSend: HandleRead and ParseRequest.                           *)

\* No more than RecvSize at once; what is left is taken for another request.
HandleRead ==
  /\ main = "recv" /\ inbox # <<>>
  /\ recvBuffer' = SubSeq(inbox, 1, Min({RecvSize, Len(inbox)}))
  /\ inbox' = SubSeq(inbox, Min({RecvSize, Len(inbox)}) + 1, Len(inbox))
  /\ whole' = (recvBuffer' = Text(request))
  /\ main' = "parse"
  /\ UNCHANGED <<config, conn, onWay, pos, parsed, headers, disk, answers, peer>>

\* recv returns 0 or EAGAIN: the connection is closed.
CloseConnection ==
  /\ main = "recv" /\ inbox = <<>>
  /\ conn' = "closed" /\ main' = "select"
  /\ UNCHANGED <<config, onWay, inbox, parser, disk, answers, peer>>

\* The process ends and its sockets with it, with a reset if data is lost.
Killed ==
  /\ main' = "killed"
  /\ conn' = IF inbox = <<>> THEN "closed" ELSE "reset"

ParseRequestLine ==
  /\ main = "parse"
  /\ \E line \in {RequestLine(recvBuffer)} :
     \E method \in {Method(line)} :
     \E front \in {FileFront(line, method)} :
     \E tail \in {FileTail(line, front)} :
     \E name \in {FileText(line, front, tail)} :
     \E filename \in IF HasFile(front, tail) THEN AddIndex(CutQuery(name))
                                             ELSE {Index} :
       parsed' = [method |-> Substr(line, 0, method), filename |-> filename,
                  version |-> VersionText(line, tail)]
  /\ recvBuffer' = BehindLine(recvBuffer)
  /\ main' = "headers"
  /\ UNCHANGED <<config, socket, pos, headers, whole, disk, answers, peer>>

\* string value = str.substr(pos, ...) throws if pos is behind the size.
ParseHeader ==
  /\ main = "headers" /\ ~HeadersEnd(recvBuffer, pos)
  /\ \E colon \in {Colon(recvBuffer, pos)} :
     \E from \in {ValueFrom(recvBuffer, colon)} :
     \E to \in {ValueTo(recvBuffer, from)} :
       /\ from <= Len(recvBuffer)
       /\ headers' = Assigned(headers, Key(recvBuffer, pos, colon),
                               Value(recvBuffer, from, to))
       /\ pos' = Behind(pos, to)
  /\ UNCHANGED <<main, config, socket, recvBuffer, parsed, whole, disk, answers, peer>>

HeaderOutOfRange ==
  /\ main = "headers" /\ ~HeadersEnd(recvBuffer, pos)
  /\ ValueFrom(recvBuffer, Colon(recvBuffer, pos)) > Len(recvBuffer)
  /\ Killed
  /\ UNCHANGED <<config, onWay, inbox, parser, disk, answers, peer>>

HeadersDone ==
  /\ main = "headers" /\ HeadersEnd(recvBuffer, pos)
  /\ main' = "info"
  /\ UNCHANGED <<config, socket, parser, disk, answers, peer>>

\* InfoPrint clears the headers; the rest of the request is dead now.
NothingParsed == [method |-> <<>>, filename |-> <<>>, version |-> <<>>]
InfoPrint ==
  /\ main = "info"
  /\ recvBuffer' = <<>> /\ pos' = 0 /\ parsed' = NothingParsed
  /\ headers' = <<>> /\ whole' = FALSE
  /\ main' = "stat"
  /\ UNCHANGED <<config, socket, disk, answers, peer>>

-----------------------------------------------------------------------------
(* httpRecvandSend: HandleWrite and HandleError.                           *)

\* A directory has a size, too.
SizeOf(f) == IF f = Directory THEN Page ELSE f

Stat ==
  /\ main = "stat"
  /\ \E f \in Sizes \cup {Absent, Directory} :
       IF f = Absent
       THEN main' = "error" /\ UNCHANGED disk
       ELSE /\ main' = "open"
            /\ file' = f /\ srcStat' = SizeOf(f) /\ changed' = FALSE
  /\ UNCHANGED <<config, socket, parser, answers, peer>>

\* open fails for a file that is gone or that may not be read.
OpenFile ==
  /\ main = "open"
  /\ \/ file # Absent /\ main' = "mmap"
     \/ main' = "error"
  /\ UNCHANGED <<config, socket, parser, disk, answers, peer>>

\* mmap takes no length of zero and no directory.
Mmap ==
  /\ main = "mmap"
  /\ main' = IF srcStat = 0 \/ file = Directory THEN "error" ELSE "copy"
  /\ UNCHANGED <<config, socket, parser, disk, answers, peer>>

\* What is sent goes to the client; if it has gone, a reset comes back,
\* and a later send may raise SIGPIPE, which kills (Server.tla).
Sent(r) ==
  \/ main' = "recv" /\ answers' = Append(answers, r) /\ UNCHANGED conn
  \/ client \in {"ended", "failed"} /\ answers # <<>>
     /\ Killed /\ UNCHANGED answers

EndWrite == file' = Absent /\ srcStat' = 0 /\ changed' = FALSE

\* The bytes copied from the mapping: those behind the file's last page
\* raise SIGBUS, those behind its end are zero.
Pages(n) == ((n + Page - 1) \div Page) * Page
CopyCurrent(length) == Min({length, file})
Copied(length) == length

SendFile ==
  /\ main = "copy" /\ Pages(file) >= srcStat
  /\ Sent([length |-> srcStat, body |-> Copied(srcStat),
           fromFile |-> Min({file, Copied(srcStat)}), stable |-> ~changed,
           error |-> FALSE])
  /\ EndWrite
  /\ UNCHANGED <<config, onWay, inbox, parser, peer>>

BusError ==
  /\ main = "copy" /\ Pages(file) < srcStat
  /\ Killed /\ EndWrite
  /\ UNCHANGED <<config, onWay, inbox, parser, answers, peer>>

\* The page for 404 is written into the code.  Its one send is not looked
\* at, and may take all of it (2, a bound), a part of it, or nothing.
ErrorPage(n) ==
  [length |-> 2, body |-> n, fromFile |-> 0, stable |-> FALSE, error |-> TRUE]
HandleError ==
  /\ main = "error"
  /\ \/ \E n \in 1..2 : Sent(ErrorPage(n))
     \/ main' = "recv" /\ UNCHANGED <<answers, conn>>
  /\ EndWrite
  /\ UNCHANGED <<config, onWay, inbox, parser, peer>>

-----------------------------------------------------------------------------
(* The client.                                                             *)

Listening == main \notin {"fopen", "load", "settings", "start", "exited",
                          "killed", "undefined"}

Connect ==
  /\ client = "socket"
  /\ IF Listening THEN client' = "connected" /\ conn' = "backlog"
                  ELSE client' = "failed" /\ UNCHANGED conn
  /\ UNCHANGED <<main, config, onWay, inbox, parser, disk, answers, request, taken>>

SendRequest ==
  /\ client = "connected"
  /\ onWay' = Text(request)
  /\ client' = "receiving"
  /\ UNCHANGED <<main, config, conn, inbox, parser, disk, answers, request, taken>>

Receive ==
  /\ client = "receiving" /\ taken < Len(answers)
  /\ taken' = taken + 1
  /\ UNCHANGED <<main, config, socket, parser, disk, answers, request, client>>

\* SO_RCVTIMEO: EAGAIN after three seconds without data.
Quiet == client = "receiving" /\ taken = Len(answers)
WaitOn ==
  /\ Quiet /\ conn \in {"backlog", "open"}
  /\ UNCHANGED vars
RecvTimeout ==
  /\ Quiet /\ conn \in {"backlog", "open"}
  /\ client' = "ended"
  /\ UNCHANGED <<main, config, socket, parser, disk, answers, request, taken>>

\* "peer closed..."
RecvEnd ==
  /\ Quiet /\ conn = "closed"
  /\ client' = "ended"
  /\ UNCHANGED <<main, config, socket, parser, disk, answers, request, taken>>

\* ECONNRESET, which is none of the errors the client knows: exit(1), with
\* data in the buffer or not.
RecvReset ==
  /\ client = "receiving" /\ conn = "reset"
  /\ client' = "failed"
  /\ UNCHANGED <<main, config, socket, parser, disk, answers, request, taken>>

-----------------------------------------------------------------------------
(* The network and the file system.                                        *)

\* The request arrives in one piece or in two (a bound).  What arrives at a
\* socket that was closed is answered with a reset.
Arrive ==
  /\ onWay # <<>>
  /\ \E n \in IF onWay = Text(request) THEN 1..Len(onWay) ELSE {Len(onWay)} :
       /\ onWay' = SubSeq(onWay, n + 1, Len(onWay))
       /\ IF conn \in {"backlog", "open"}
          THEN inbox' = inbox \o SubSeq(onWay, 1, n) /\ UNCHANGED conn
          ELSE conn' = "reset" /\ UNCHANGED inbox
  /\ UNCHANGED <<main, config, parser, disk, answers, peer>>

\* A name may come to name another file, a file that is open may only be cut
\* or grow.
FileChanges ==
  /\ \/ main = "open" /\ file' \in Sizes \cup {Absent, Directory}
     \/ main \in {"mmap", "copy"} /\ file # Directory /\ file' \in Sizes
  /\ changed' = TRUE
  /\ UNCHANGED <<main, config, socket, parser, srcStat, answers, peer>>

-----------------------------------------------------------------------------
Init ==
  /\ main = "fopen" /\ conf \in Files /\ items = <<>>
  /\ rest = IF conf \in {Absent, Unreadable} THEN <<>>
            ELSE ConfText(conf)
  /\ conn = "none" /\ onWay = <<>> /\ inbox = <<>>
  /\ recvBuffer = <<>> /\ pos = 0 /\ parsed = NothingParsed
  /\ headers = <<>> /\ whole = FALSE
  /\ file = Absent /\ srcStat = 0 /\ changed = FALSE
  /\ answers = <<>>
  /\ request \in Requests /\ client = "socket" /\ taken = 0

Main == \/ Fopen \/ ReadFails \/ LoadLine \/ LoadDone
        \/ GetSettings \/ ServerStart \/ AcceptConnection \/ SelectConnection

ParseRequest == \/ ParseRequestLine \/ ParseHeader \/ HeaderOutOfRange
                \/ HeadersDone

HandleWrite == \/ Stat \/ OpenFile \/ Mmap \/ SendFile \/ BusError
               \/ HandleError

ServerThread == \/ Main \/ HandleRead \/ CloseConnection \/ ParseRequest
                \/ InfoPrint \/ HandleWrite

Client == \/ Connect \/ SendRequest \/ Receive \/ RecvTimeout \/ RecvEnd
          \/ RecvReset

Next == ServerThread \/ Client \/ Arrive \/ FileChanges

\* Both programs run when they can.  Nothing is asked of the network.
Spec == Init /\ [][Next]_vars /\ WF_vars(ServerThread) /\ WF_vars(Client)

-----------------------------------------------------------------------------
(* Properties                                                              *)

\* Every variable has a value of the kind the code gives it.
Answer == [length : Nat, body : Nat, fromFile : Nat, stable : BOOLEAN,
           error : BOOLEAN]
TypeOK ==
  /\ main \in {"fopen", "load", "settings", "start", "select", "recv",
               "parse", "headers", "info", "stat", "open", "mmap", "copy",
               "error", "exited", "killed", "undefined"}
  /\ conf \in Files
  /\ \A k \in 1..Len(items) : DOMAIN items[k] = {"itemName", "itemContent"}
  /\ conn \in {"none", "backlog", "open", "closed", "reset"}
  /\ request \in Requests
  /\ pos \in 0..Len(recvBuffer) + 1
  /\ DOMAIN parsed = {"method", "filename", "version"}
  /\ file \in Sizes \cup {Absent, Directory}
  /\ srcStat \in Sizes \cup {0, Page}
  /\ answers \in Seq(Answer) /\ taken \in 0..Len(answers)
  /\ client \in {"socket", "connected", "receiving", "ended", "failed"}
  /\ whole \in BOOLEAN /\ changed \in BOOLEAN

\* A file whose lines, names and contents fit gives each setting the first
\* content that was written for its name, whatever its case and the blanks
\* around it, and nothing that stands in a comment, a section or an indented
\* line.  A port is what was written if it is one.
LineFits(line) ==
  /\ Chars(TextOf(line)) < LineSize
  /\ Chars(line.name \o line.before) < NameSize
  /\ Chars(line.after \o line.value) < ContentSize
Settings(name) ==
  {k \in 1..Len(conf) : conf[k].indent = <<>> /\ Lower(conf[k].name) = name}
Written(name) ==
  IF Settings(name) = {} THEN Null ELSE conf[Min(Settings(name))].value
PortWritten ==
  IF Settings(<<"listenport">>) = {} THEN 12345
  ELSE LET value == Written(<<"listenport">>) IN
         IF value # <<>> /\ Head(value) \in DOMAIN NumberOf
         THEN NumberOf[Head(value)] ELSE 0
SettingsAsWritten ==
  (main = "settings" /\ \A k \in 1..Len(conf) : LineFits(conf[k])) =>
    /\ Ip = Written(<<"ip">>)
    /\ FileRoot = Written(<<"fileroot">>)
    /\ (PortWritten \in Ports => Port = PortWritten)

\* A request that is received in one piece is understood as it was sent: its
\* method, its file (index.html for a directory) without the query, its
\* version, and of each header the last value, behind one character that is
\* the colon or a blank.  A query directly behind the first "/" is taken for
\* the file's name.
FileAsked(r) ==
  IF r.name = <<>> \/ Last(r.name) = "/" THEN r.name \o Index ELSE r.name
RequestAsSent ==
  (main = "info" /\ whole) =>
    /\ parsed.method = <<request.method>>
    /\ (request.name # <<>> \/ request.query = <<>>) =>
         parsed.filename = FileAsked(request)
    /\ parsed.version = Version
    /\ DOMAIN headers = {request.headers[k].key : k \in 1..Len(request.headers)}
    /\ \A key \in DOMAIN headers :
         Tail(headers[key]) =
           request.headers[Max({k \in 1..Len(request.headers) :
                                  request.headers[k].key = key})].value

\* The parser comes to an end with every request that is received in one
\* piece, and without an exception.  (With one that is cut in its last
\* header it may throw, or go round for ever.)
ParsingEnds == (main \in {"parse", "headers"} /\ whole) ~> (main = "info")

\* However the file changes between stat, open, mmap and the copy, a
\* response has as many bytes as its Content-Length says, and they are the
\* file's own bytes unless it did change.  The page of an error may be cut
\* short.
AnswerIsFile ==
  \A k \in 1..Len(answers) :
    /\ answers[k].length = answers[k].body \/ answers[k].error
    /\ answers[k].stable => answers[k].fromFile = answers[k].body

\* The client comes to an end whatever becomes of the server: refused,
\* answered, closed, reset, or by its timeout.
ClientEnds == <>(client \in {"ended", "failed"})
=============================================================================
