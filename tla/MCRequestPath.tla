--------------------------- MODULE MCRequestPath ---------------------------
(* Requests for TLC: each family varies what one part of the program tells *)
(* apart, at and around its limits.                                        *)
EXTENDS RequestPath

OneDongle == 1
OneHandle == {1}
ConnectionEvents == {"GAP_CONNECTION_EVT"}
OneByte == 1

Mac(n) == Token("mac", n)
NoQuery == <<>>
Ask(method, path, query) ==
  [method |-> method, path |-> path, query |-> query, accept |-> <<>>, joined |-> FALSE, value |-> <<>>]

\* A query parameter that may be missing.
Optional(name, tokens) == {NoQuery} \cup {name :> t : t \in tokens}
Numbers(ns) == {Number(n) : n \in ns}
Both(as, bs) == {a @@ b : a \in as, b \in bs}

Methods == {"GET", "PUT", "DELETE", "OPTIONS"}
Resources ==
  {Ask(method, path, NoQuery) : method \in Methods,
     path \in {<<>>, <<Number(1)>>, <<Number(1), Connected>>, <<Number(1), Mac(258)>>,
               <<Number(1), Mac(258), Number(1)>>}}
  \cup {Ask(method, <<Number(1), Mac(513)>>, NoQuery) : method \in {"GET", "PUT"}}
  \cup {Ask("GET", path, NoQuery) :
          path \in {<<Number(2)>>, <<Huge>>, <<Word(3)>>, <<Number(1), Word(3)>>,
                    <<Number(1), Mac(258), Word(3)>>, <<Number(1), Mac(258), Huge>>,
                    <<Number(1), Mac(258), Number(1), Number(1)>>}}

Joined == {[Ask("GET", path, "X" :> Number(1)) EXCEPT !.joined = TRUE] :
             path \in {<<>>, <<Number(1)>>, <<Number(1), Connected>>}}

Entry(type, q, others) == [type |-> type, q |-> q, others |-> others]
HtmlAt(q) == Entry("text/html", q, FALSE)
JsonAt(q) == Entry("application/json", q, FALSE)
Usual == {HtmlAt(5), HtmlAt(10), JsonAt(10), Entry("application/*", 10, FALSE), Entry("text/*", 10, FALSE)}
Entries == Usual \cup {Entry(type, 10, FALSE) : type \in {"*/*", "image/png"}}
           \cup {Entry("text/html", 5, TRUE)}
Accepts == {[Ask("GET", <<>>, NoQuery) EXCEPT !.accept = accept] :
              accept \in {<<a>> : a \in Entries} \cup (Usual \X Usual)
                        \cup {<<JsonAt(10), HtmlAt(5), HtmlAt(10)>>, <<HtmlAt(10), JsonAt(5), JsonAt(10)>>}}
           \cup {[Ask("GET", <<Number(1), Connected>>, NoQuery) EXCEPT !.accept = <<Entry("image/png", 10, FALSE)>>]}

\* Values that are legal alone and together are not, and each one at its limits.
Connects ==
  {Ask("PUT", <<Number(1), Mac(258)>>, query) :
     query \in Both(Both(Optional("CONNECTIONINTERVAL", Numbers({22, 3200, 3201})),
                         Optional("TIMEOUT", Numbers({400, 3201}))),
                    Optional("SLAVELATENCY", Numbers({10, 11, 501})))
               \cup Optional("CONNECTIONINTERVAL", Numbers({5, 6, 65612}) \cup {Word(3), Huge})
               \cup Optional("TIMEOUT", Numbers({9, 10, 399}))
               \cup Optional("ADDRESSTYPE", Numbers({0, 255, 257}))}

Discoveries ==
  {Ask("GET", <<Number(1), Discovered>>, query @@ ("DISCOVERTIME" :> Number(1))) :
     query \in Both(Optional("SCANINTERVAL", Numbers({3, 4, 16384, 16385})),
                    Optional("SCANWINDOW", Numbers({3, 16385})))
               \cup {("DISCOVERMODE" :> Number(n)) @@ ("ACTIVESCAN" :> Number(n)) : n \in {0, 1, 2, 3}}}
  \cup {Ask("GET", <<Number(1), Discovered>>, "DISCOVERTIME" :> t) : t \in Numbers({0, 65536}) \cup {Word(3)}}

\* A read that takes no old value, one from the last second, and one however old.
Attributes == {Ask("GET", <<Number(1), Mac(258), Number(n)>>, NoQuery) : n \in {65535, 65537}}
              \cup {Ask("GET", <<Number(1), Mac(258), Number(1)>>, "LASTUPDATE" :> t) :
                      t \in Numbers({0, 1, 60}) \cup {Word(3)}}
Writes == {[Ask("PUT", <<Number(1), Mac(258), Number(n)>>, NoQuery) EXCEPT !.value = value] :
             n \in {1, 65537}, value \in {<<>>, <<10>>, <<0, 10>>, <<10, 16>>, <<16, 10, 1>>, <<1, 2, 3, 4>>}}

AllRequests == Resources \cup Joined \cup Accepts \cup Connects \cup Discoveries \cup Attributes \cup Writes
=============================================================================
