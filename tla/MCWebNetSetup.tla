----------------------------- MODULE MCWebNetSetup -----------------------------
(* The words of the library and the commands of the sketch, and requests   *)
(* of all kinds.                                                           *)
EXTENDS WebNetSetup

Chars(string) == [i \in 1..Len(string) |-> SubSeq(string, i, i)]

MCMethods == <<Chars("GET "), Chars("HEAD "), Chars("POST "), Chars("PUT "),
               Chars("DELETE "), Chars("PATCH ")>>
MCContentLength == Chars("Content-Length:")
MCAuthorization == Chars("Authorization:")
MCEndOfHeaders == Chars("\r\n\r\n")
MCCommands == <<Chars("index.html"), Chars("setupNet.html")>>

Asks(method, path, query, headers) ==
    [method |-> Chars(method), path |-> Chars(path), query |-> Chars(query),
     rest |-> Chars(headers)]

Long == [i \in 1..180 |-> "7"]

(* All cuts of the others, and those of the long one around its end.       *)
MCCuts == 0..90 \cup 195..300

(* The default page; a setting with a coded digit and one without a number; *)
(* a HEAD request; both headers, and a third that begins like one; a        *)
(* method nobody knows; a path that is longer than that of a page; a URL    *)
(* that does not fit; and a header without a value.                         *)
MCRequests ==
    {Asks("GET ", "/", "", " H\r\n\r\n"),
     Asks("GET ", "/setupNet.html", "?9=37&24=%31&x", " H\r\n\r\n"),
     Asks("HEAD ", "/setupNet.html", "?9=8", " H\r\n\r\n"),
     Asks("POST ", "/index.html", "",
          " H\r\nContent: 1\r\nAuthorization: Basic c\r\nContent-Length: -12\r\n\r\nx"),
     Asks("PUSH ", "/", "", " H\r\n\r\n"),
     Asks("GET ", "/index.html2", "", " H\r\n\r\n"),
     [Asks("GET ", "/setupNet.html", "?22=8080", " H\r\n\r\n")
         EXCEPT !.query = @ \o <<"&", "9", "=">> \o Long],
     Asks("GET ", "/", "", " H\r\nAuthorization:\r\n\r\n")}
===============================================================================
