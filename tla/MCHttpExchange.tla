--------------------------- MODULE MCHttpExchange --------------------------
(* Small instances of HttpExchange for TLC. *)
EXTENDS HttpExchange

Request(method, length, body, resp_header, resp_body) ==
  [method |-> method, header |-> 2, length |-> length, body |-> body,
   resp_header |-> resp_header, resp_body |-> resp_body,
   target |-> IF method = "POST" THEN "module" ELSE "file", since |-> FALSE]

Get(n, to, new) == [Request("GET", -1, 0, 2, n) EXCEPT !.target = to, !.since = new]

\* Gets of any size of file; posts whose answer fits the send buffer, with as
\* many bytes as announced, more or fewer; requests that are refused or do not
\* fit httpReqBuf; paths that lead elsewhere.
Fitting ==
  {Request("GET", -1, 0, 2, n) : n \in 0..8}
  \cup {Request("POST", n, n, 2, 2) : n \in 0..2}
  \cup {Request("POST", n, n, 1, 0) : n \in 2..5}
  \cup {Request("POST", n, n + 1, 1, 1) : n \in 0..2}
  \cup {Request("POST", 0, 5, 1, 1), Request("POST", 2, 1, 1, 1)}
  \cup {Request("POST", -1, 2, 1, 1), Request("other", -1, 1, 1, 1)}
  \cup {Get(0, to, new) : to \in {"dir", "missing", "script"}, new \in BOOLEAN}
  \cup {Get(1, "file", TRUE)}
  \cup {[Request("POST", 0, 0, 1, 1) EXCEPT !.since = TRUE],
        [Request("POST", 0, 0, 1, 1) EXCEPT !.target = "missing"],
        [Request("POST", 0, 0, 1, 1) EXCEPT !.target = "file"]}

\* An answer to a post that is longer than the send buffer.
LongAnswer == {Request("POST", 1, 1, 2, 5)}
=============================================================================
