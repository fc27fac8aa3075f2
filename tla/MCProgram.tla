----------------------------- MODULE MCProgram -----------------------------
(* Configuration files and requests for Program, with sizes of the buffers *)
(* that the words put lines just inside and just outside of.               *)
EXTENDS Program

Words == {"LF", "CR", "SP", "TAB", "#", "[", "=", "ip", "IP", "fileroot",
          "listenport", "1.2.3.4", "root/", "80", "70000", "long", "wide", "pad"}
MCWidth == [w \in Words |-> CASE w \in {"LF", "CR", "SP", "TAB", "#", "[", "="} -> 1
                              [] w \in {"long", "wide"} -> 4
                              [] OTHER -> 2]
MCLowerCase == [w \in {"IP"} |-> "ip"]
MCNumberOf == [n \in {"80", "70000"} |-> IF n = "80" THEN 80 ELSE 70000]

Line(name, value) ==
  [indent |-> <<>>, name |-> <<name>>, before |-> <<"SP">>, after |-> <<"SP">>,
   value |-> <<value>>, end |-> <<"CR", "LF">>]
Blanks(n) == [k \in 1..n |-> "SP"]
Ip1 == Line("ip", "1.2.3.4")
Root1 == [Line("fileroot", "root/") EXCEPT !.before = <<>>, !.end = <<"SP", "LF">>]
Port1 == [Line("listenport", "80") EXCEPT !.after = <<"SP", "SP">>, !.end = <<>>]

Blank == [indent |-> <<>>, name |-> <<>>, before |-> <<>>, after |-> <<>>,
          value |-> <<>>, end |-> <<"LF">>]
Section == [Blank EXCEPT !.indent = <<"[", "pad">>]

MCFiles ==
  { Absent, Unreadable,
    <<>>,
    \* as it should be, and as the repository's own: an empty line, a section
    <<Blank, Section, Ip1, Root1, Port1>>,
    \* commented out, indented, in brackets, and then twice
    << [Ip1 EXCEPT !.indent = <<"#">>, !.value = <<"80">>],
       [Ip1 EXCEPT !.indent = <<"TAB">>, !.value = <<"80">>],
       [Ip1 EXCEPT !.indent = <<"[">>, !.value = <<"80">>],
       Line("IP", "1.2.3.4"), Line("ip", "80"), Root1 >>,
    \* a setting is missing, one has no content, a port is none
    <<Ip1, [Blank EXCEPT !.indent = <<"pad">>, !.end = <<"SP", "LF">>],
      Line("listenport", "70000")>>,
    <<[Ip1 EXCEPT !.value = <<"=">>], Line("listenport", "root/")>>,
    <<Ip1, Root1, [Line("listenport", "80") EXCEPT !.value = <<>>]>>,
    \* a name and a content that just fit, or just do not
    <<Line("long", "80"), [Line("ip", "wide") EXCEPT !.end = <<"LF">>]>>,
    \* a name that blanks carry to the end of its field, with a content and
    \* with none
    <<[Line("long", "80") EXCEPT !.before = <<"SP", "SP">>],
      [Line("ip", "80") EXCEPT !.name = <<"ip", "SP", "long">>],
      [Line("ip", "80") EXCEPT !.before = Blanks(4)],
      [Line("ip", "80") EXCEPT !.before = Blanks(4), !.after = <<>>, !.value = <<>>],
      Ip1>>,
    <<[Line("ip", "wide") EXCEPT !.after = <<"SP", "SP", "SP">>], Ip1>>,
    \* a comment too long for one fgets, whose rest is taken for a setting
    <<[Ip1 EXCEPT !.indent = <<"#", "wide", "wide", "wide", "pad">>]>> }

Header(key, blanks, value) == [key |-> key, blanks |-> blanks, value |-> value]
Request(name, query, hs, body) ==
  [method |-> "GET", name |-> name, query |-> query, headers |-> hs, body |-> body]

MCRequests ==
  { \* the client's own
    Request(<<>>, <<>>, <<Header(<<"Host">>, <<"SP">>, <<"a">>)>>, <<>>),
    \* no headers, a directory and a query
    Request(<<"d", "/">>, <<"?", "q">>, <<>>, <<>>),
    Request(<<>>, <<"?", "q">>, <<>>, <<"b", "CR">>),
    \* blanks, colons, and a header that comes twice
    Request(<<"f">>, <<"?", "/">>,
            <<Header(<<"K">>, <<>>, <<"v">>),
              Header(<<"L">>, <<"SP", "SP">>, <<"v", ":", "w">>),
              Header(<<"K">>, <<"SP">>, <<"x">>)>>, <<"b">>),
    \* one that is longer than recv takes at once
    Request(<<"f">>, <<>>, <<Header(<<"K">>, <<>>, <<"v">>)>>,
            [k \in 1..20 |-> "b"]) }
MCSizes == 0..3
=============================================================================
