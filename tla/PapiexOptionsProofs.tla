----------------------- MODULE PapiexOptionsProofs -----------------------
(***************************************************************************)
(* Proofs about PapiexOptions, for any arguments, events, conflicts and    *)
(* numbers of arguments: incompatible options are never both accepted;     *)
(* what was asked for arrives in the library, whatever the order; and the  *)
(* events it is given were asked for, and can be counted.                  *)
(***************************************************************************)
EXTENDS PapiexOptions, FiniteSetTheorems, SequenceTheorems, TLAPS

Words ==
  {"DEBUG", "QUIET", "RUSAGE", "MEMORY", "NO_WRITE", "WRITE_ONLY", "USER", "KERNEL", "OTHER", "SUPERVISOR",
   "PREFIX", "DIR", "FILE", "MULTIPLEX", "MPX_INTERVAL", "SPEC", "GCC_PROF", "PATHSCALE", "EVENT",
   "NO_MPI_GATHER", "NO_SUMMARY_STATS", "NO_DERIVED_STATS", "NO_MPI_PROF", "NO_IO_PROF",
   "NO_THREADSYNC_PROF", "NO_SCIENTIFIC", "NEXTGEN", "CSV"}

\* The strings there are: the provers know of no literal that it is one.
Text == STRING \cup {"", "all", "none", "default", "mpi", "io", "threadsync", "prefix", "dir", "file"}

TokenType == [word : Words, arg : Text]

LibType ==
  [set : SUBSET Words, domain : SUBSET Words, pathscale : Text, spec : Text, output : Text,
   events : Seq(Text), no_prof : SUBSET Text, gates : SUBSET Wrappers]

OptType ==
  /\ given \in Seq(Arguments) /\ opts \in Seq(TokenType)
  /\ events \in Seq(Text) /\ kept \in Seq(Text)
  /\ at \in Nat /\ lib \in LibType

-----------------------------------------------------------------------------
(* Types *)

LEMMA ArgumentFacts ==
  ASSUME NEW a \in Arguments
  PROVE  /\ a.arg \in Text
         /\ a.opt = "flag" => a.arg \in LongFlags
         /\ a.opt \in DOMAIN Word => Token(Word[a.opt], a.arg) \in TokenType
<1>1. a \in [opt : STRING, arg : STRING] /\ (a.opt = "flag" => a.arg \in LongFlags)
  BY OptionsAssumption
<1>2. a.arg \in Text
  BY <1>1 DEF Text
<1>3. a.opt \in DOMAIN Word => Word[a.opt] \in Words
  BY DEF Word, Words
<1>4. \A w \in Words, x \in Text : Token(w, x) \in TokenType
  BY DEF Token, TokenType
<1> QED
  BY <1>1, <1>2, <1>3, <1>4

\* What decoding a token does to each setting.
LEMMA Decoded ==
  ASSUME NEW s \in LibType, NEW t \in TokenType
  PROVE  LET d == Decode(s, t)
         IN  /\ d \in LibType /\ d.gates = s.gates
             /\ d.set = (IF t.word \in {"QUIET", "PATHSCALE", "SPEC", "EVENT"} \cup Domains \cup DOMAIN Outputs \cup DOMAIN Unset
                         THEN s.set ELSE IF t.word = "CSV" THEN s.set \cup {"CSV", "NEXTGEN"} ELSE s.set \cup {t.word})
             /\ d.domain = (IF t.word \in Domains THEN s.domain \cup {t.word} ELSE s.domain)
             /\ d.pathscale = (IF t.word = "PATHSCALE" THEN t.arg ELSE s.pathscale)
             /\ d.spec = (IF t.word = "SPEC" THEN t.arg ELSE s.spec)
             /\ d.output = (IF t.word \in DOMAIN Outputs THEN Outputs[t.word] ELSE s.output)
             /\ d.no_prof = (IF t.word \in DOMAIN Unset THEN s.no_prof \cup {Unset[t.word]} ELSE s.no_prof)
             /\ d.events = (IF t.word = "EVENT" THEN Append(s.events, t.arg) ELSE s.events)
<1> DEFINE w == t.word
<1>0. w \in Words /\ t.arg \in Text
  BY DEF TokenType
<1>1. CASE w = "QUIET"
  BY <1>1, <1>0 DEF Decode, Domains, Outputs, Unset
<1>2. CASE w \in Domains
  <2>1. w # "QUIET" /\ w # "PATHSCALE" /\ w # "SPEC" /\ w \notin DOMAIN Outputs /\ w \notin DOMAIN Unset /\ w # "CSV" /\ w # "EVENT"
    BY <1>2 DEF Domains, Outputs, Unset
  <2>2. Decode(s, t) = [s EXCEPT !.domain = @ \cup {w}]
    BY <1>2, <2>1 DEF Decode, DomainWith
  <2> HIDE DEF w
  <2> QED
    BY <2>1, <2>2, <1>0, <1>2 DEF LibType, w
<1>3. CASE w = "PATHSCALE"
  <2>2. Decode(s, t) = [s EXCEPT !.pathscale = t.arg]
    BY <1>3 DEF Decode, Domains, Outputs, Unset
  <2> QED
    BY <1>3, <2>2, <1>0 DEF LibType, Domains, Outputs, Unset
<1>4. CASE w = "SPEC"
  <2>2. Decode(s, t) = [s EXCEPT !.spec = t.arg]
    BY <1>4 DEF Decode, Domains, Outputs, Unset
  <2> QED
    BY <1>4, <2>2, <1>0 DEF LibType, Domains, Outputs, Unset
<1>5. CASE w \in DOMAIN Outputs
  <2>1. w # "QUIET" /\ w # "PATHSCALE" /\ w # "SPEC" /\ w \notin Domains /\ w \notin DOMAIN Unset /\ w # "CSV" /\ w # "EVENT"
    BY <1>5 DEF Domains, Outputs, Unset
  <2>2. Decode(s, t) = [s EXCEPT !.output = Outputs[w]]
    BY <1>5, <2>1 DEF Decode
  <2>0. Outputs[w] \in {"prefix", "dir", "file"}
    BY <1>5 DEF Outputs
  <2>3. Outputs[w] \in Text
    BY <2>0 DEF Text
  <2> QED
    BY <1>5, <2>1, <2>2, <2>3 DEF LibType
<1>6. CASE w \in DOMAIN Unset
  <2>1. w # "QUIET" /\ w # "PATHSCALE" /\ w # "SPEC" /\ w \notin Domains /\ w \notin DOMAIN Outputs /\ w # "CSV" /\ w # "EVENT"
    BY <1>6 DEF Domains, Outputs, Unset
  <2>2. Decode(s, t) = [s EXCEPT !.no_prof = @ \cup {Unset[w]}]
    BY <1>6, <2>1 DEF Decode
  <2>0. Unset[w] \in {"mpi", "io", "threadsync"}
    BY <1>6 DEF Unset
  <2>3. Unset[w] \in Text
    BY <2>0 DEF Text
  <2> QED
    BY <1>6, <2>1, <2>2, <2>3 DEF LibType
<1>7. CASE w = "CSV"
  <2>2. Decode(s, t) = [s EXCEPT !.set = @ \cup {"CSV", "NEXTGEN"}]
    BY <1>7 DEF Decode, Domains, Outputs, Unset
  <2>3. {"CSV", "NEXTGEN"} \subseteq Words
    BY DEF Words
  <2> QED
    BY <1>7, <2>2, <2>3, <1>0 DEF LibType, Domains, Outputs, Unset
<1>8. CASE w = "EVENT"
  <2>2. Decode(s, t) = [s EXCEPT !.events = Append(@, t.arg)]
    BY <1>8 DEF Decode, Domains, Outputs, Unset
  <2>3. s.events \in Seq(Text) /\ Append(s.events, t.arg) \in Seq(Text)
    BY <1>0 DEF LibType
  <2> QED
    BY <1>8, <2>2, <2>3, <1>0 DEF LibType, Domains, Outputs, Unset
<1>9. CASE w \notin {"QUIET", "PATHSCALE", "SPEC", "CSV", "EVENT"} \cup Domains \cup DOMAIN Outputs \cup DOMAIN Unset
  <2>2. Decode(s, t) = [s EXCEPT !.set = @ \cup {w}]
    BY <1>9 DEF Decode
  <2> QED
    BY <1>9, <2>2, <1>0 DEF LibType
<1> QED
  BY <1>1, <1>2, <1>3, <1>4, <1>5, <1>6, <1>7, <1>8, <1>9

-----------------------------------------------------------------------------
(* Tokens *)

\* A list of tokens has the word w.
In(s, w) == \E i \in 1 .. Len(s) : s[i].word = w

\* v is the argument of the last token w of a list, or "none".
Last(s, w, v) ==
  \/ ~In(s, w) /\ v = "none"
  \/ \E i \in 1 .. Len(s) : s[i].word = w /\ s[i].arg = v /\ \A j \in 1 .. Len(s) : j > i => s[j].word # w

LEMMA Appended ==
  ASSUME NEW S, NEW s \in Seq(S), NEW x \in S
  PROVE  /\ Append(s, x) \in Seq(S) /\ Len(s) \in Nat /\ Len(Append(s, x)) = Len(s) + 1
         /\ Append(s, x)[Len(s) + 1] = x /\ \A i \in 1 .. Len(s) : Append(s, x)[i] = s[i]
         /\ 1 .. Len(s) + 1 = (1 .. Len(s)) \cup {Len(s) + 1}
OBVIOUS

LEMMA Joined ==
  ASSUME NEW S, NEW s \in Seq(S), NEW t \in Seq(S)
  PROVE  /\ s \o t \in Seq(S) /\ Len(s) \in Nat /\ Len(t) \in Nat /\ Len(s \o t) = Len(s) + Len(t)
         /\ \A i \in 1 .. Len(s) : (s \o t)[i] = s[i]
         /\ \A i \in 1 .. Len(t) : (s \o t)[Len(s) + i] = t[i]
         /\ \A i \in 1 .. Len(s) + Len(t) : i \in 1 .. Len(s) \/ \E j \in 1 .. Len(t) : i = Len(s) + j
<1>1. /\ s \o t \in Seq(S) /\ Len(s) \in Nat /\ Len(t) \in Nat /\ Len(s \o t) = Len(s) + Len(t)
      /\ \A i \in 1 .. Len(s) : (s \o t)[i] = s[i]
      /\ \A i \in 1 .. Len(t) : (s \o t)[Len(s) + i] = t[i]
  OBVIOUS
<1>2. ASSUME NEW i \in 1 .. Len(s) + Len(t), i \notin 1 .. Len(s)
      PROVE  \E j \in 1 .. Len(t) : i = Len(s) + j
  <2>1. i - Len(s) \in 1 .. Len(t) /\ i = Len(s) + (i - Len(s))
    BY <1>1, <1>2
  <2> QED
    BY <2>1
<1> QED
  BY <1>1, <1>2

LEMMA InAppend ==
  ASSUME NEW s \in Seq(TokenType), NEW t \in TokenType
  PROVE  \A w : In(Append(s, t), w) <=> In(s, w) \/ t.word = w
BY Appended DEF In

LEMMA InJoined ==
  ASSUME NEW s \in Seq(TokenType), NEW t \in Seq(TokenType)
  PROVE  \A w : In(s \o t, w) <=> In(s, w) \/ In(t, w)
<1> DEFINE j == s \o t
<1>1. /\ Len(s) \in Nat /\ Len(t) \in Nat /\ Len(j) = Len(s) + Len(t)
      /\ \A i \in 1 .. Len(s) : j[i] = s[i]
      /\ \A i \in 1 .. Len(t) : j[Len(s) + i] = t[i]
      /\ \A i \in 1 .. Len(s) + Len(t) : i \in 1 .. Len(s) \/ \E k \in 1 .. Len(t) : i = Len(s) + k
  BY Joined
<1> HIDE DEF j
<1> SUFFICES ASSUME NEW w PROVE In(j, w) <=> In(s, w) \/ In(t, w)
  BY DEF j
<1>2. ASSUME In(j, w) PROVE In(s, w) \/ In(t, w)
  <2>1. PICK i \in 1 .. Len(j) : j[i].word = w
    BY <1>2 DEF In
  <2>2. CASE i \in 1 .. Len(s)
    BY <2>1, <2>2, <1>1 DEF In
  <2>3. CASE i \notin 1 .. Len(s)
    <3>1. PICK k \in 1 .. Len(t) : i = Len(s) + k
      BY <2>3, <1>1
    <3>2. t[k].word = w
      BY <3>1, <2>1, <1>1
    <3> QED
      BY <3>2 DEF In
  <2> QED
    BY <2>2, <2>3
<1>3. ASSUME In(s, w) PROVE In(j, w)
  <2>1. PICK i \in 1 .. Len(s) : s[i].word = w
    BY <1>3 DEF In
  <2>2. i \in 1 .. Len(j) /\ j[i].word = w
    BY <1>1, <2>1
  <2> QED
    BY <2>2 DEF In
<1>4. ASSUME In(t, w) PROVE In(j, w)
  <2>1. PICK i \in 1 .. Len(t) : t[i].word = w
    BY <1>4 DEF In
  <2>2. Len(s) + i \in 1 .. Len(j) /\ j[Len(s) + i].word = w
    BY <1>1, <2>1
  <2> QED
    BY <2>2 DEF In
<1> QED
  BY <1>2, <1>3, <1>4

LEMMA InNone == \A w : ~In(<<>>, w)
BY DEF In

LEMMA InOne ==
  ASSUME NEW t \in TokenType
  PROVE  <<t>> \in Seq(TokenType) /\ \A w : In(<<t>>, w) <=> t.word = w
<1>1. <<t>> \in Seq(TokenType) /\ Len(<<t>>) = 1 /\ <<t>>[1] = t
  OBVIOUS
<1> QED
  BY <1>1 DEF In

LEMMA LastAppend ==
  ASSUME NEW s \in Seq(TokenType), NEW t \in TokenType, NEW w, NEW v
  PROVE  /\ t.word = w => Last(Append(s, t), w, t.arg)
         /\ t.word # w /\ Last(s, w, v) => Last(Append(s, t), w, v)
<1> DEFINE r == Append(s, t)
<1>1. /\ Len(s) \in Nat /\ Len(r) = Len(s) + 1
      /\ r[Len(s) + 1] = t /\ \A i \in 1 .. Len(s) : r[i] = s[i]
  BY Appended
<1>2. \A u : In(r, u) <=> In(s, u) \/ t.word = u
  BY InAppend
<1> HIDE DEF r
<1>3. ASSUME t.word = w PROVE Last(r, w, t.arg)
  <2>1. Len(s) + 1 \in 1 .. Len(r) /\ \A j \in 1 .. Len(r) : ~(j > Len(s) + 1)
    BY <1>1
  <2> QED
    BY <1>1, <1>3, <2>1 DEF Last
<1>4. ASSUME t.word # w, Last(s, w, v) PROVE Last(r, w, v)
  <2>1. CASE ~In(s, w) /\ v = "none"
    BY <2>1, <1>2, <1>4 DEF Last
  <2>2. CASE ~(~In(s, w) /\ v = "none")
    <3>1. PICK i \in 1 .. Len(s) : s[i].word = w /\ s[i].arg = v /\ \A j \in 1 .. Len(s) : j > i => s[j].word # w
      BY <2>2, <1>4 DEF Last
    <3>2. i \in 1 .. Len(r) /\ r[i].word = w /\ r[i].arg = v
      BY <3>1, <1>1
    <3>3. \A j \in 1 .. Len(r) : j > i => r[j].word # w
      BY <3>1, <1>1, <1>4
    <3> QED
      BY <3>2, <3>3 DEF Last
  <2> QED
    BY <2>1, <2>2
<1> QED
  BY <1>3, <1>4 DEF r

LEMMA LastJoined ==
  ASSUME NEW s \in Seq(TokenType), NEW t \in Seq(TokenType), NEW w, NEW v, Last(s, w, v), ~In(t, w)
  PROVE  Last(s \o t, w, v)
<1> DEFINE r == s \o t
<1>1. /\ Len(s) \in Nat /\ Len(t) \in Nat /\ Len(r) = Len(s) + Len(t)
      /\ \A i \in 1 .. Len(s) : r[i] = s[i]
      /\ \A i \in 1 .. Len(t) : r[Len(s) + i] = t[i]
      /\ \A i \in 1 .. Len(s) + Len(t) : i \in 1 .. Len(s) \/ \E k \in 1 .. Len(t) : i = Len(s) + k
  BY Joined
<1>2. \A u : In(r, u) <=> In(s, u) \/ In(t, u)
  BY InJoined
<1> HIDE DEF r
<1>3. CASE ~In(s, w) /\ v = "none"
  BY <1>3, <1>2 DEF Last, r
<1>4. CASE ~(~In(s, w) /\ v = "none")
  <2>1. PICK i \in 1 .. Len(s) : s[i].word = w /\ s[i].arg = v /\ \A j \in 1 .. Len(s) : j > i => s[j].word # w
    BY <1>4 DEF Last
  <2>2. i \in 1 .. Len(r) /\ r[i].word = w /\ r[i].arg = v
    BY <2>1, <1>1
  <2>3. \A k \in 1 .. Len(t) : t[k].word # w
    BY DEF In
  <2>4. ASSUME NEW j \in 1 .. Len(r), j > i PROVE r[j].word # w
    <3>1. CASE j \in 1 .. Len(s)
      BY <3>1, <2>1, <2>4, <1>1
    <3>2. CASE j \notin 1 .. Len(s)
      <4>1. PICK k \in 1 .. Len(t) : j = Len(s) + k
        BY <3>2, <1>1
      <4> QED
        BY <4>1, <2>3, <1>1
    <3> QED
      BY <3>1, <3>2
  <2> QED
    BY <2>2, <2>4 DEF Last, r
<1> QED
  BY <1>3, <1>4

LEMMA LastUnique ==
  ASSUME NEW s \in Seq(TokenType), NEW w, NEW u, NEW v, Last(s, w, u), Last(s, w, v)
  PROVE  u = v
<1>1. CASE ~In(s, w)
  BY <1>1 DEF Last, In
<1>2. CASE In(s, w)
  <2>1. PICK i \in 1 .. Len(s) : s[i].word = w /\ s[i].arg = u /\ \A j \in 1 .. Len(s) : j > i => s[j].word # w
    BY <1>2 DEF Last
  <2>2. PICK k \in 1 .. Len(s) : s[k].word = w /\ s[k].arg = v /\ \A j \in 1 .. Len(s) : j > k => s[j].word # w
    BY <1>2 DEF Last
  <2>3. i = k
    BY <2>1, <2>2
  <2> QED
    BY <2>1, <2>2, <2>3
<1> QED
  BY <1>1, <1>2

\* What the flags append.
LongWord(w) ==
  \/ w = "NO_MPI_GATHER" /\ "no_mpi_gather" \in flags
  \/ w = "NO_SUMMARY_STATS" /\ "no_summary" \in flags
  \/ w = "NO_DERIVED_STATS" /\ "no_derived" \in flags
  \/ w = "NO_MPI_PROF" /\ "no_mpi_prof" \in flags
  \/ w = "NO_IO_PROF" /\ "no_io_prof" \in flags
  \/ w = "NO_THREADSYNC_PROF" /\ "no_threadsync_prof" \in flags
  \/ w = "NO_SCIENTIFIC" /\ "no_scientific" \in flags
  \/ w = "NEXTGEN" /\ "classic" \notin flags
  \/ w = "CSV" /\ "csv" \in flags

LEMMA LongTokenFacts ==
  LongTokens \in Seq(TokenType) /\ \A w : In(LongTokens, w) <=> LongWord(w)
<1> DEFINE when(flag, word) == IF flag \in flags THEN <<Token(word, "")>> ELSE <<>>
           a == when("no_mpi_gather", "NO_MPI_GATHER")
           b == when("no_summary", "NO_SUMMARY_STATS")
           c == when("no_derived", "NO_DERIVED_STATS")
           d == when("no_mpi_prof", "NO_MPI_PROF")
           e == when("no_io_prof", "NO_IO_PROF")
           f == when("no_threadsync_prof", "NO_THREADSYNC_PROF")
           g == when("no_scientific", "NO_SCIENTIFIC")
           h == IF "classic" \in flags THEN <<>> ELSE <<Token("NEXTGEN", "")>>
           k == when("csv", "CSV")
<1>1. \A x \in Words : /\ Token(x, "") \in TokenType /\ <<Token(x, "")>> \in Seq(TokenType) /\ Token(x, "").word = x
                       /\ \A w : In(<<Token(x, "")>>, w) <=> x = w
  <2> SUFFICES ASSUME NEW x \in Words
               PROVE  /\ Token(x, "") \in TokenType /\ <<Token(x, "")>> \in Seq(TokenType) /\ Token(x, "").word = x
                      /\ \A w : In(<<Token(x, "")>>, w) <=> x = w
    OBVIOUS
  <2>1. Token(x, "") \in TokenType /\ Token(x, "").word = x
    BY DEF Token, TokenType, Text
  <2> QED
    BY <2>1, InOne
<1>2. <<>> \in Seq(TokenType) /\ \A w : ~In(<<>>, w)
  BY InNone
<1>3. \A x \in Words : \A y : when(y, x) \in Seq(TokenType) /\ \A w : In(when(y, x), w) <=> y \in flags /\ w = x
  BY <1>1, <1>2
<1>4. h \in Seq(TokenType) /\ \A w : In(h, w) <=> "classic" \notin flags /\ w = "NEXTGEN"
  <2>1. "NEXTGEN" \in Words
    BY DEF Words
  <2> QED
    BY <1>1, <1>2, <2>1
<1>5. /\ a \in Seq(TokenType) /\ \A w : In(a, w) <=> "no_mpi_gather" \in flags /\ w = "NO_MPI_GATHER"
      /\ b \in Seq(TokenType) /\ \A w : In(b, w) <=> "no_summary" \in flags /\ w = "NO_SUMMARY_STATS"
      /\ c \in Seq(TokenType) /\ \A w : In(c, w) <=> "no_derived" \in flags /\ w = "NO_DERIVED_STATS"
      /\ d \in Seq(TokenType) /\ \A w : In(d, w) <=> "no_mpi_prof" \in flags /\ w = "NO_MPI_PROF"
      /\ e \in Seq(TokenType) /\ \A w : In(e, w) <=> "no_io_prof" \in flags /\ w = "NO_IO_PROF"
      /\ f \in Seq(TokenType) /\ \A w : In(f, w) <=> "no_threadsync_prof" \in flags /\ w = "NO_THREADSYNC_PROF"
      /\ g \in Seq(TokenType) /\ \A w : In(g, w) <=> "no_scientific" \in flags /\ w = "NO_SCIENTIFIC"
      /\ k \in Seq(TokenType) /\ \A w : In(k, w) <=> "csv" \in flags /\ w = "CSV"
  <2>1. {"NO_MPI_GATHER", "NO_SUMMARY_STATS", "NO_DERIVED_STATS", "NO_MPI_PROF", "NO_IO_PROF",
         "NO_THREADSYNC_PROF", "NO_SCIENTIFIC", "CSV"} \subseteq Words
    BY DEF Words
  <2> HIDE DEF when
  <2> QED
    BY <1>3, <2>1
<1>6. LongTokens = a \o b \o c \o d \o e \o f \o g \o h \o k
  BY DEF LongTokens
<1> HIDE DEF a, b, c, d, e, f, g, h, k
<1> DEFINE ab == a \o b
           ac == ab \o c
           ad == ac \o d
           ae == ad \o e
           af == ae \o f
           ag == af \o g
           ah == ag \o h
<1>7. ab \in Seq(TokenType) /\ \A w : In(ab, w) <=> In(a, w) \/ In(b, w)
  BY <1>5, Joined, InJoined
<1> HIDE DEF ab
<1>8. ac \in Seq(TokenType) /\ \A w : In(ac, w) <=> In(ab, w) \/ In(c, w)
  BY <1>5, <1>7, Joined, InJoined
<1> HIDE DEF ac
<1>9. ad \in Seq(TokenType) /\ \A w : In(ad, w) <=> In(ac, w) \/ In(d, w)
  BY <1>5, <1>8, Joined, InJoined
<1> HIDE DEF ad
<1>10. ae \in Seq(TokenType) /\ \A w : In(ae, w) <=> In(ad, w) \/ In(e, w)
  BY <1>5, <1>9, Joined, InJoined
<1> HIDE DEF ae
<1>11. af \in Seq(TokenType) /\ \A w : In(af, w) <=> In(ae, w) \/ In(f, w)
  BY <1>5, <1>10, Joined, InJoined
<1> HIDE DEF af
<1>12. ag \in Seq(TokenType) /\ \A w : In(ag, w) <=> In(af, w) \/ In(g, w)
  BY <1>5, <1>11, Joined, InJoined
<1> HIDE DEF ag
<1>13. ah \in Seq(TokenType) /\ \A w : In(ah, w) <=> In(ag, w) \/ In(h, w)
  BY <1>4, <1>12, Joined, InJoined
<1> HIDE DEF ah
<1>14. ah \o k \in Seq(TokenType) /\ \A w : In(ah \o k, w) <=> In(ah, w) \/ In(k, w)
  BY <1>5, <1>13, Joined, InJoined
<1>15. LongTokens = ah \o k
  BY <1>6 DEF ab, ac, ad, ae, af, ag, ah
<1>16. \A w : In(LongTokens, w) <=> In(a, w) \/ In(b, w) \/ In(c, w) \/ In(d, w) \/ In(e, w) \/ In(f, w) \/ In(g, w) \/ In(h, w) \/ In(k, w)
  BY <1>7, <1>8, <1>9, <1>10, <1>11, <1>12, <1>13, <1>14, <1>15
<1>17. ASSUME NEW w PROVE In(LongTokens, w) <=> LongWord(w)
  <2>1. /\ In(a, w) <=> "no_mpi_gather" \in flags /\ w = "NO_MPI_GATHER"
        /\ In(b, w) <=> "no_summary" \in flags /\ w = "NO_SUMMARY_STATS"
        /\ In(c, w) <=> "no_derived" \in flags /\ w = "NO_DERIVED_STATS"
        /\ In(d, w) <=> "no_mpi_prof" \in flags /\ w = "NO_MPI_PROF"
        /\ In(e, w) <=> "no_io_prof" \in flags /\ w = "NO_IO_PROF"
        /\ In(f, w) <=> "no_threadsync_prof" \in flags /\ w = "NO_THREADSYNC_PROF"
        /\ In(g, w) <=> "no_scientific" \in flags /\ w = "NO_SCIENTIFIC"
        /\ In(h, w) <=> "classic" \notin flags /\ w = "NEXTGEN"
        /\ In(k, w) <=> "csv" \in flags /\ w = "CSV"
    BY <1>4, <1>5
  <2> QED
    BY <2>1, <1>16 DEF LongWord
<1> QED
  BY <1>14, <1>15, <1>17

\* The tokens of the events.
EventTokens == [i \in DOMAIN events |-> Token("EVENT", events[i])]

LEMMA EventTokenFacts ==
  ASSUME OptType
  PROVE  /\ EventTokens \in Seq(TokenType) /\ Len(EventTokens) = Len(events) /\ Len(events) \in Nat
         /\ \A i \in 1 .. Len(events) : EventTokens[i].word = "EVENT" /\ EventTokens[i].arg = events[i]
         /\ \A w : In(EventTokens, w) => w = "EVENT"
<1>1. /\ Len(events) \in Nat /\ DOMAIN events = 1 .. Len(events)
      /\ \A i \in 1 .. Len(events) : events[i] \in Text
  BY DEF OptType
<1>2. "EVENT" \in Words
  BY DEF Words
<1>3. \A i \in 1 .. Len(events) : Token("EVENT", events[i]) \in TokenType
  BY <1>1, <1>2 DEF Token, TokenType
<1>4. EventTokens = [i \in 1 .. Len(events) |-> Token("EVENT", events[i])]
  BY <1>1 DEF EventTokens
<1>5. EventTokens \in Seq(TokenType) /\ Len(EventTokens) = Len(events)
  BY <1>1, <1>3, <1>4
<1>6. \A i \in 1 .. Len(events) : EventTokens[i].word = "EVENT" /\ EventTokens[i].arg = events[i]
  BY <1>4 DEF Token
<1>7. \A w : In(EventTokens, w) => w = "EVENT"
  BY <1>5, <1>6 DEF In
<1> QED
  BY <1>1, <1>5, <1>6, <1>7

-----------------------------------------------------------------------------
(* The options given *)

\* v is the argument of the last option o, or "none".
LastGiven(o, v) ==
  \/ ~Has(o) /\ v = "none"
  \/ \E i \in DOMAIN given : given[i].opt = o /\ given[i].arg = v /\ \A j \in DOMAIN given : given[j].opt = o => j <= i

LEMMA Taken ==
  ASSUME OptType, NEW a \in Arguments, Take(a)
  PROVE  /\ given' \in Seq(Arguments) /\ Len(given) \in Nat
         /\ DOMAIN given = 1 .. Len(given) /\ DOMAIN given' = 1 .. Len(given) + 1 /\ Len(given') = Len(given) + 1
         /\ given'[Len(given) + 1] = a /\ \A i \in 1 .. Len(given) : given'[i] = given[i]
         /\ \A o : Has(o)' <=> Has(o) \/ a.opt = o
         /\ \A f : HasFlag(f)' <=> HasFlag(f) \/ (a.opt = "flag" /\ a.arg = f)
<1>1. /\ given' \in Seq(Arguments) /\ Len(given) \in Nat
      /\ DOMAIN given = 1 .. Len(given) /\ DOMAIN given' = 1 .. Len(given) + 1 /\ Len(given') = Len(given) + 1
      /\ given'[Len(given) + 1] = a /\ \A i \in 1 .. Len(given) : given'[i] = given[i]
  BY DEF OptType, Take
<1>2. \A o : Has(o)' <=> Has(o) \/ a.opt = o
  <2>1. \A i : i \in 1 .. Len(given) + 1 <=> i \in 1 .. Len(given) \/ i = Len(given) + 1
    BY <1>1
  <2> QED
    BY <1>1, <2>1 DEF Has
<1>3. \A f : HasFlag(f)' <=> HasFlag(f) \/ (a.opt = "flag" /\ a.arg = f)
  <2>1. \A i : i \in 1 .. Len(given) + 1 <=> i \in 1 .. Len(given) \/ i = Len(given) + 1
    BY <1>1
  <2> QED
    BY <1>1, <2>1 DEF HasFlag
<1> QED
  BY <1>1, <1>2, <1>3

LEMMA LastTaken ==
  ASSUME OptType, NEW a \in Arguments, Take(a), NEW o, NEW v
  PROVE  /\ a.opt = o => LastGiven(o, a.arg)'
         /\ a.opt # o /\ LastGiven(o, v) => LastGiven(o, v)'
<1>1. /\ Len(given) \in Nat
      /\ DOMAIN given = 1 .. Len(given) /\ DOMAIN given' = 1 .. Len(given) + 1
      /\ given'[Len(given) + 1] = a /\ \A i \in 1 .. Len(given) : given'[i] = given[i]
      /\ Has(o)' <=> Has(o) \/ a.opt = o
  BY Taken
<1>2. ASSUME a.opt = o PROVE LastGiven(o, a.arg)'
  <2>1. Len(given) + 1 \in DOMAIN given' /\ \A j \in DOMAIN given' : j <= Len(given) + 1
    BY <1>1
  <2> QED
    BY <1>1, <1>2, <2>1 DEF LastGiven
<1>3. ASSUME a.opt # o, LastGiven(o, v) PROVE LastGiven(o, v)'
  <2>1. CASE ~Has(o) /\ v = "none"
    BY <2>1, <1>1, <1>3 DEF LastGiven
  <2>2. CASE ~(~Has(o) /\ v = "none")
    <3>1. PICK i \in DOMAIN given : given[i].opt = o /\ given[i].arg = v /\ \A j \in DOMAIN given : given[j].opt = o => j <= i
      BY <2>2, <1>3 DEF LastGiven
    <3>2. i \in DOMAIN given' /\ given'[i].opt = o /\ given'[i].arg = v
      BY <3>1, <1>1
    <3>3. \A j \in DOMAIN given' : given'[j].opt = o => j <= i
      BY <3>1, <1>1, <1>3
    <3> QED
      BY <3>2, <3>3 DEF LastGiven
  <2> QED
    BY <2>1, <2>2
<1> QED
  BY <1>2, <1>3

LEMMA LastArgIs ==
  ASSUME OptType, NEW o, NEW v, LastGiven(o, v)
  PROVE  LastArg(o, "none") = v /\ (v = "none" \/ Has(o))
<1>1. DOMAIN given \subseteq Nat
  BY DEF OptType
<1>2. CASE ~Has(o)
  BY <1>2 DEF LastGiven, LastArg, Has
<1>3. CASE Has(o)
  <2> DEFINE P(i) == given[i].opt = o /\ \A j \in DOMAIN given : given[j].opt = o => j <= i
             c == CHOOSE i \in DOMAIN given : P(i)
  <2>1. PICK i \in DOMAIN given : P(i) /\ given[i].arg = v
    BY <1>3 DEF LastGiven
  <2>2. c \in DOMAIN given /\ P(c)
    BY <2>1
  <2>3. c <= i /\ i <= c
    BY <2>1, <2>2
  <2>4. c = i
    BY <1>1, <2>1, <2>2, <2>3
  <2> QED
    BY <1>3, <2>1, <2>4 DEF LastArg
<1> QED
  BY <1>2, <1>3

-----------------------------------------------------------------------------
(* Types *)

LEMMA TypesInit == Init => OptType
<1> SUFFICES ASSUME Init PROVE OptType
  OBVIOUS
<1>1. Defaults \in LibType
  <2>1. "none" \in Text /\ {"threadsync"} \subseteq Text /\ <<>> \in Seq(Text)
    BY DEF Text
  <2> QED
    BY <2>1 DEF Defaults, LibType
<1> QED
  BY <1>1 DEF Init, OptType

\* The library's tokens.
LEMMA WordsGiven ==
  /\ \A w \in Words, x \in Text : Token(w, x) \in TokenType /\ Token(w, x).word = w /\ Token(w, x).arg = x
  /\ {"MULTIPLEX", "MPX_INTERVAL", "MEMORY", "SPEC", "GCC_PROF", "PATHSCALE"} \subseteq Words /\ {"", "all", "none"} \subseteq Text
<1>1. \A w \in Words, x \in Text : Token(w, x) \in TokenType /\ Token(w, x).word = w /\ Token(w, x).arg = x
  BY DEF Token, TokenType
<1>2. {"MULTIPLEX", "MPX_INTERVAL", "MEMORY", "SPEC", "GCC_PROF", "PATHSCALE"} \subseteq Words
  BY DEF Words
<1>3. {"", "all", "none"} \subseteq Text
  BY DEF Text
<1> QED
  BY <1>1, <1>2, <1>3

LEMMA ImpliedFacts ==
  Implied \in Seq(TokenType) /\ \A w : In(Implied, w) <=> w \in {"MULTIPLEX", "MEMORY"}
<1> DEFINE x == Token("MULTIPLEX", "")
           y == Token("MEMORY", "")
<1>1. x \in TokenType /\ x.word = "MULTIPLEX" /\ y \in TokenType /\ y.word = "MEMORY"
  BY WordsGiven
<1>2. Implied = <<x, y>>
  BY DEF Implied
<1> HIDE DEF x, y
<1>3. <<x, y>> \in Seq(TokenType) /\ Len(<<x, y>>) = 2 /\ <<x, y>>[1] = x /\ <<x, y>>[2] = y
  BY <1>1
<1>4. Implied \in Seq(TokenType) /\ Len(Implied) = 2 /\ Implied[1].word = "MULTIPLEX" /\ Implied[2].word = "MEMORY"
  BY <1>1, <1>2, <1>3
<1> QED
  BY <1>4 DEF In

\* The tokens of -m.
MultiplexTokens(a) == <<Token("MULTIPLEX", "")>> \o (IF a.arg = "" THEN <<>> ELSE <<Token("MPX_INTERVAL", a.arg)>>)

LEMMA MultiplexFacts ==
  ASSUME OptType, NEW a \in Arguments
  PROVE  /\ MultiplexTokens(a) \in Seq(TokenType)
         /\ opts \o <<Token("MULTIPLEX", "")>> \o (IF a.arg = "" THEN <<>> ELSE <<Token("MPX_INTERVAL", a.arg)>>)
              = opts \o MultiplexTokens(a)
         /\ In(MultiplexTokens(a), "MULTIPLEX")
         /\ \A w : In(MultiplexTokens(a), w) => w \in {"MULTIPLEX", "MPX_INTERVAL"}
<1> DEFINE s == <<Token("MULTIPLEX", "")>>
           t == IF a.arg = "" THEN <<>> ELSE <<Token("MPX_INTERVAL", a.arg)>>
<1>1. s \in Seq(TokenType) /\ \A w : In(s, w) <=> w = "MULTIPLEX"
  <2>1. Token("MULTIPLEX", "") \in TokenType /\ Token("MULTIPLEX", "").word = "MULTIPLEX"
    BY WordsGiven
  <2> QED
    BY <2>1, InOne
<1>2. t \in Seq(TokenType) /\ \A w : In(t, w) => w = "MPX_INTERVAL"
  <2>1. a.arg \in Text
    BY ArgumentFacts
  <2>2. Token("MPX_INTERVAL", a.arg) \in TokenType /\ Token("MPX_INTERVAL", a.arg).word = "MPX_INTERVAL"
    BY <2>1, WordsGiven
  <2>3. <<>> \in Seq(TokenType)
    OBVIOUS
  <2> QED
    BY <2>1, <2>2, <2>3, InOne, InNone
<1>3. MultiplexTokens(a) = s \o t
  BY DEF MultiplexTokens
<1> HIDE DEF s, t
<1>4. s \o t \in Seq(TokenType) /\ \A w : In(s \o t, w) <=> In(s, w) \/ In(t, w)
  BY <1>1, <1>2, Joined, InJoined
<1>5. opts \o s \o t = opts \o (s \o t)
  <2>1. opts \in Seq(TokenType)
    BY DEF OptType
  <2> QED
    BY <1>1, <1>2, <2>1, ConcatAssociative
<1> QED
  BY <1>1, <1>2, <1>3, <1>4, <1>5 DEF s, t

LEMMA EventsText == UsefulEvents \in Seq(Text) /\ DefaultEvents \in Seq(Text)
<1>1. STRING \subseteq Text
  BY DEF Text
<1>2. Seq(STRING) \subseteq Seq(Text)
  BY <1>1, SeqMonotonic
<1> QED
  BY <1>2, OptionsAssumption

\* An option changes the tokens and the events only by appending.
LEMMA OptionTypes ==
  ASSUME OptType, NEW a \in Arguments, Option(a)
  PROVE  OptType'
<1>0. /\ given' \in Seq(Arguments) /\ at' = at /\ kept' = kept /\ lib' = lib
  <2>1. Take(a)
    BY DEF Option, TokenOption, MultiplexOption, AutoOption, EventOption, SpecOption, do_G_option, do_Q_option,
           FlagOption, PrintOption
  <2> QED
    BY <2>1, Taken DEF Take
<1>1. opts \in Seq(TokenType) /\ events \in Seq(Text) /\ a.arg \in Text
  BY ArgumentFacts DEF OptType
<1> SUFFICES opts' \in Seq(TokenType) /\ events' \in Seq(Text)
  BY <1>0 DEF OptType
<1>2. \A t \in TokenType : Append(opts, t) \in Seq(TokenType)
  BY <1>1
<1>3. CASE TokenOption(a)
  BY <1>1, <1>2, <1>3, ArgumentFacts DEF TokenOption, Refuse
<1>4. CASE MultiplexOption(a)
  <2>1. opts \o MultiplexTokens(a) \in Seq(TokenType)
    BY <1>1, MultiplexFacts, Joined
  <2> QED
    BY <1>1, <1>4, <2>1, MultiplexFacts DEF MultiplexOption, Refuse
<1>5. CASE AutoOption(a)
  <2>1. opts \o Implied \in Seq(TokenType)
    BY <1>1, ImpliedFacts, Joined
  <2> QED
    BY <1>1, <1>5, <2>1 DEF AutoOption
<1>6. CASE EventOption(a)
  BY <1>1, <1>6 DEF EventOption
<1>7. CASE SpecOption(a)
  <2>1. Token("SPEC", a.arg) \in TokenType
    BY <1>1, WordsGiven
  <2> QED
    BY <1>1, <1>2, <1>7, <2>1 DEF SpecOption, Refuse
<1>8. CASE do_G_option(a)
  <2>1. Token("GCC_PROF", "") \in TokenType
    BY WordsGiven
  <2> QED
    BY <1>1, <1>2, <1>8, <2>1 DEF do_G_option, Refuse
<1>9. CASE do_Q_option(a)
  <2>1. (IF a.arg = "" THEN "all" ELSE a.arg) \in Text
    BY <1>1, WordsGiven
  <2>2. Token("PATHSCALE", IF a.arg = "" THEN "all" ELSE a.arg) \in TokenType
    BY <2>1, WordsGiven
  <2> QED
    BY <1>1, <1>2, <1>9, <2>2 DEF do_Q_option, Refuse
<1>10. CASE FlagOption(a)
  BY <1>1, <1>10 DEF FlagOption
<1>11. CASE PrintOption(a)
  BY <1>1, <1>11 DEF PrintOption
<1> QED
  BY <1>3, <1>4, <1>5, <1>6, <1>7, <1>8, <1>9, <1>10, <1>11 DEF Option

LEMMA AdjustedFacts ==
  ASSUME NEW s \in LibType
  PROVE  LET d == LookUp(Adjusted(s))
         IN  /\ d \in LibType
             /\ d.set = (IF "NEXTGEN" \in s.set THEN s.set \ {"NO_WRITE"} ELSE s.set)
             /\ d.no_prof = s.no_prof \cup ({"mpi", "io", "threadsync"} \ preload)
             /\ d.domain = s.domain /\ d.pathscale = s.pathscale /\ d.spec = s.spec /\ d.output = s.output
             /\ d.events = s.events /\ d.gates = s.gates
<1> DEFINE m == Adjusted(s)
<1>1. /\ m \in LibType
      /\ m.set = (IF "NEXTGEN" \in s.set THEN s.set \ {"NO_WRITE"} ELSE s.set)
      /\ m.no_prof = s.no_prof /\ m.domain = s.domain /\ m.pathscale = s.pathscale /\ m.spec = s.spec
      /\ m.output = s.output /\ m.events = s.events /\ m.gates = s.gates
  BY DEF Adjusted, LibType
<1> HIDE DEF m
<1>2. {"mpi", "io", "threadsync"} \subseteq Text
  BY DEF Text
<1>3. LookUp(m) = [m EXCEPT !.no_prof = @ \cup ({"mpi", "io", "threadsync"} \ preload)]
  BY DEF LookUp
<1>4. LookUp(m) \in LibType
  BY <1>1, <1>2, <1>3 DEF LibType
<1>5. /\ LookUp(m).no_prof = s.no_prof \cup ({"mpi", "io", "threadsync"} \ preload)
      /\ LookUp(m).set = m.set /\ LookUp(m).domain = m.domain /\ LookUp(m).pathscale = m.pathscale
      /\ LookUp(m).spec = m.spec /\ LookUp(m).output = m.output /\ LookUp(m).events = m.events
      /\ LookUp(m).gates = m.gates
  BY <1>1, <1>3 DEF LibType
<1> QED
  BY <1>1, <1>4, <1>5 DEF m

LEMMA CountedFacts ==
  ASSUME lib \in LibType, InitRoutines
  PROVE  /\ lib' \in LibType
         /\ lib'.events = Counted(lib) /\ lib'.gates = Gates(lib)
         /\ lib'.domain = (IF lib.domain = {} THEN {"USER"} ELSE lib.domain)
         /\ lib'.set = lib.set /\ lib'.pathscale = lib.pathscale /\ lib'.output = lib.output
         /\ lib'.spec = (IF lib.spec = "none" THEN "default" ELSE lib.spec)
         /\ lib'.no_prof = lib.no_prof
<1> DEFINE e == Counted(lib)
           g == Gates(lib)
<1>1. lib.events \in Seq(Text) /\ e \in Seq(Text)
  BY EventsText DEF Counted, LibType
<1>2. g \in SUBSET Wrappers
  BY DEF Gates, Wrappers
<1>3. "USER" \in Words
  BY DEF Words
<1>4. lib' = [lib EXCEPT !.events = e, !.gates = g, !.domain = IF @ = {} THEN {"USER"} ELSE @,
                         !.spec = IF @ = "none" THEN "default" ELSE @]
  BY DEF InitRoutines, ChosenDomain
<1> DEFINE d == IF lib.domain = {} THEN {"USER"} ELSE lib.domain
           f == IF lib.spec = "none" THEN "default" ELSE lib.spec
<1>5. d \in SUBSET Words /\ f \in Text
  BY <1>3 DEF LibType, Text
<1>6. lib' = [lib EXCEPT !.events = e, !.gates = g, !.domain = d, !.spec = f]
  BY <1>4
<1> HIDE DEF e, g, d, f
<1>7. lib' \in LibType
  BY <1>1, <1>2, <1>5, <1>6 DEF LibType
<1>8. /\ lib'.events = e /\ lib'.gates = g /\ lib'.domain = d /\ lib'.spec = f
      /\ lib'.set = lib.set /\ lib'.pathscale = lib.pathscale /\ lib'.output = lib.output
      /\ lib'.no_prof = lib.no_prof
  BY <1>6 DEF LibType
<1> QED
  BY <1>7, <1>8 DEF e, g, d, f

-----------------------------------------------------------------------------
(* The invariants *)

\* The stages before the events and the flags become tokens, and those after the launcher.
Early == {"args", "events", "compatible", "tokens"}
Late == {"library", "process", "counting", "failed"}

LongWords == {"NO_MPI_GATHER", "NO_SUMMARY_STATS", "NO_DERIVED_STATS", "NO_MPI_PROF", "NO_IO_PROF",
              "NO_THREADSYNC_PROF", "NO_SCIENTIFIC", "NEXTGEN", "CSV"}

\* The flags say which options were given.
FlagsInv ==
  /\ \A f \in LongFlags \ {"skip"} : f \in flags <=> HasFlag(f)
  /\ "skip" \in flags => HasFlag("skip") \/ Has("a") \/ HasFlag("test")
  /\ "multiplex" \in flags <=> Has("m") \/ Has("a")
  /\ "auto" \in flags <=> Has("a")
  /\ "gcc" \in flags <=> Has("G")

ModeInv ==
  \/ pathscale = "none" /\ ~Has("Q")
  \/ \E v \in Profiles : Has("Q") /\ LastGiven("Q", v) /\ pathscale = (IF v = "" THEN "all" ELSE v)

\* So do the tokens, and later the flags.
TokensInv ==
  /\ \A o \in DOMAIN Word \ {"x"} : In(opts, Word[o]) <=> Has(o)
  /\ In(opts, "MEMORY") <=> Has("x") \/ Has("a")
  /\ In(opts, "MULTIPLEX") <=> Has("m") \/ Has("a")
  /\ In(opts, "GCC_PROF") <=> Has("G")
  /\ Last(opts, "PATHSCALE", pathscale)
  /\ \E v \in {"none"} \cup {a.arg : a \in Arguments} : LastGiven("E", v) /\ Last(opts, "SPEC", v)
  /\ \A w \in LongWords : In(opts, w) <=> stage \notin Early /\ LongWord(w)
  /\ stage \in Early => ~In(opts, "EVENT")

CompatInv == \A pair \in Exclusive : \E o \in pair : ~Has(o)

ChoiceInv == stage \notin {"refused", "printed"} => FlagsInv /\ ModeInv /\ TokensInv /\ CompatInv

\* What a list of tokens makes of the settings of the library.
Setting(toks, x) ==
  \/ x \notin {"QUIET", "PATHSCALE", "SPEC", "EVENT"} \cup Domains \cup DOMAIN Outputs \cup DOMAIN Unset /\ In(toks, x)
  \/ x = "NEXTGEN" /\ In(toks, "CSV")

NoProf(toks) == {"threadsync"} \cup {Unset[w] : w \in {u \in DOMAIN Unset : In(toks, u)}}

\* The settings s are what the tokens say.
Reads(s, toks) ==
  /\ s.domain = {w \in Domains : In(toks, w)}
  /\ Last(toks, "PATHSCALE", s.pathscale) /\ Last(toks, "SPEC", s.spec)
  /\ \/ s.output = "none" /\ \A w \in DOMAIN Outputs : ~In(toks, w)
     \/ \E w \in DOMAIN Outputs : In(toks, w) /\ s.output = Outputs[w]

\* Until the loop ends, so are the others.
Decodes(s, toks) ==
  /\ Reads(s, toks)
  /\ s.set = {x \in Words : Setting(toks, x)}
  /\ s.no_prof = NoProf(toks)

LibInv ==
  /\ stage \in Early \cup {"launch"} => lib = Defaults
  /\ stage \in {"args", "events", "tokens", "launch"} => at = 0
  /\ stage \in Late => preload = Libraries
  /\ stage = "library" => at <= Len(opts) /\ Decodes(lib, SubSeq(opts, 1, at))
  /\ stage = "process" =>
       /\ Reads(lib, opts)
       /\ lib.set = {x \in Words : Setting(opts, x) /\ ~(x = "NO_WRITE" /\ Setting(opts, "NEXTGEN"))}
       /\ lib.no_prof = NoProf(opts) \cup ({"mpi", "io", "threadsync"} \ preload)

\* The events of -e, in order; each of the list was asked for.
ListedInv ==
  /\ Len(events) = Rank(Len(given))
  /\ \A i \in DOMAIN given : given[i].opt = "e" => Rank(i) \in 1 .. Len(events) /\ events[Rank(i)] = given[i].arg
  /\ \A k \in DOMAIN events : \E i \in DOMAIN given : given[i].opt = "e" /\ given[i].arg = events[k]

\* All that were asked for, and no others.
Complete ==
  /\ AsRequested(events)
  /\ \A k \in DOMAIN events : Requested(events[k])
  /\ \A e \in Countable : Requested(e) => \E k \in DOMAIN events : events[k] = e

\* Events of the list that were tried are kept, or could not be added.
KeptInv ==
  /\ at <= Len(events) /\ CanCount(kept, Multiplexed)
  /\ \A k \in DOMAIN kept : \E j \in DOMAIN events : events[j] = kept[k]
  /\ \A j \in 1 .. at : events[j] \in Known => ~Adds(kept, events[j], Multiplexed)

Skipping == HasFlag("skip") \/ Has("a")

\* The list that leaves the test.
Left ==
  \/ AsRequested(events)
  \/ /\ Skipping \/ HasFlag("test")
     /\ AllAdded(events, Multiplexed)
     /\ \A k \in DOMAIN events : Requested(events[k])
     /\ ~\E e \in Countable : Requested(e) /\ Adds(events, e, Multiplexed)

Tested == events = <<>> \/ "nocheck" \in flags \/ CanCount(events, Multiplexed)

\* The events are tokens m + 1 to m + Len(events).
Block(m) ==
  /\ m + Len(events) <= Len(opts)
  /\ \A i \in 1 .. Len(opts) : opts[i].word = "EVENT" <=> m < i /\ i <= m + Len(events)
  /\ \A k \in DOMAIN events : opts[m + k].arg = events[k]

\* Those the library has read.
Passed(m) == IF at <= m THEN <<>> ELSE IF at <= m + Len(events) THEN SubSeq(events, 1, at - m) ELSE events

EventsInv ==
  /\ stage = "args" => ListedInv
  /\ stage \in {"args", "events"} => kept = <<>>
  /\ stage \in {"events", "compatible"} => Complete
  /\ stage = "compatible" => KeptInv /\ (Skipping \/ HasFlag("test"))
  /\ stage \in {"tokens", "launch", "library", "process"} => Left /\ Tested
  /\ stage = "launch" => \E m \in 0 .. Len(opts) : Block(m)
  /\ stage \in {"library", "process"} => "test" \notin flags
  /\ stage = "library" => \E m \in 0 .. Len(opts) : Block(m) /\ lib.events = Passed(m)
  /\ stage = "process" => lib.events = events

-----------------------------------------------------------------------------
(* The options: what the launcher keeps of them *)

LEMMA WordNames ==
  /\ \A o \in DOMAIN Word : Word[o] \in Words \ (LongWords \cup {"MULTIPLEX", "MPX_INTERVAL", "GCC_PROF", "PATHSCALE", "SPEC", "EVENT"})
  /\ \A o, q \in DOMAIN Word : Word[o] = Word[q] => o = q
  /\ \A o \in DOMAIN Word : o \notin {"m", "a", "e", "E", "G", "Q", "flag", "print", "unknown"}
  /\ \A o \in DOMAIN Word : Word[o] = "MEMORY" <=> o = "x"
  /\ "x" \in DOMAIN Word
<1>1. \A o \in DOMAIN Word : Word[o] \in Words \ (LongWords \cup {"MULTIPLEX", "MPX_INTERVAL", "GCC_PROF", "PATHSCALE", "SPEC", "EVENT"})
  BY DEF Word, Words, LongWords
<1>2. \A o, q \in DOMAIN Word : Word[o] = Word[q] => o = q
  BY DEF Word
<1>3. \A o \in DOMAIN Word : o \notin {"m", "a", "e", "E", "G", "Q", "flag", "print", "unknown"}
  BY DEF Word
<1>4. \A o \in DOMAIN Word : Word[o] = "MEMORY" <=> o = "x"
  BY DEF Word
<1> QED
  BY <1>1, <1>2, <1>3, <1>4 DEF Word

\* An option that appends the words N, and those alone.
LEMMA WordsAdded ==
  ASSUME OptType, NEW a \in Arguments, Take(a), TokensInv, stage' = "args", NEW N,
         \A w : In(opts', w) <=> In(opts, w) \/ w \in N,
         \A o \in DOMAIN Word \ {"x"} : Word[o] \in N <=> a.opt = o,
         "MEMORY" \in N <=> a.opt \in {"x", "a"},
         "MULTIPLEX" \in N <=> a.opt \in {"m", "a"},
         "GCC_PROF" \in N <=> a.opt = "G",
         \A w \in LongWords \cup {"EVENT"} : w \notin N,
         Last(opts', "PATHSCALE", pathscale'),
         \E v \in {"none"} \cup {b.arg : b \in Arguments} : LastGiven("E", v)' /\ Last(opts', "SPEC", v)
  PROVE  TokensInv'
<1>1. \A o : Has(o)' <=> Has(o) \/ a.opt = o
  BY Taken
<1>2. stage = "args" /\ stage \in Early /\ stage' \in Early
  BY DEF Take, Early
<1>3. \A w \in LongWords : ~In(opts', w)
  BY <1>2 DEF TokensInv
<1>4. ~In(opts', "EVENT")
  BY <1>2 DEF TokensInv
<1>5. \A o \in DOMAIN Word \ {"x"} : In(opts', Word[o]) <=> Has(o)'
  BY <1>1 DEF TokensInv
<1>6. /\ In(opts', "MEMORY") <=> Has("x")' \/ Has("a")'
      /\ In(opts', "MULTIPLEX") <=> Has("m")' \/ Has("a")'
      /\ In(opts', "GCC_PROF") <=> Has("G")'
  BY <1>1 DEF TokensInv
<1> QED
  BY <1>2, <1>3, <1>4, <1>5, <1>6 DEF TokensInv

\* An option other than -E leaves the last SPEC alone, unless it appends one.
LEMMA SpecKept ==
  ASSUME OptType, NEW a \in Arguments, Take(a), a.opt # "E", TokensInv,
         \A v : Last(opts, "SPEC", v) => Last(opts', "SPEC", v)
  PROVE  \E v \in {"none"} \cup {b.arg : b \in Arguments} : LastGiven("E", v)' /\ Last(opts', "SPEC", v)
BY LastTaken DEF TokensInv

\* The flags and the mode when the option is none of theirs.
LEMMA FlagsKept ==
  ASSUME OptType, NEW a \in Arguments, Take(a), FlagsInv, flags' = flags, a.opt \notin {"m", "a", "G", "flag"}
  PROVE  FlagsInv'
<1>1. /\ \A o : Has(o)' <=> Has(o) \/ a.opt = o
      /\ \A f : HasFlag(f)' <=> HasFlag(f) \/ (a.opt = "flag" /\ a.arg = f)
  BY Taken
<1> QED
  BY <1>1 DEF FlagsInv

LEMMA ModeKept ==
  ASSUME OptType, NEW a \in Arguments, Take(a), ModeInv, pathscale' = pathscale, a.opt # "Q"
  PROVE  ModeInv'
<1>1. \A o : Has(o)' <=> Has(o) \/ a.opt = o
  BY Taken
<1>2. CASE pathscale = "none" /\ ~Has("Q")
  BY <1>1, <1>2 DEF ModeInv
<1>3. CASE ~(pathscale = "none" /\ ~Has("Q"))
  <2>1. PICK v \in Profiles : Has("Q") /\ LastGiven("Q", v) /\ pathscale = (IF v = "" THEN "all" ELSE v)
    BY <1>3 DEF ModeInv
  <2>2. Has("Q")' /\ LastGiven("Q", v)'
    BY <1>1, <2>1, LastTaken
  <2> QED
    BY <2>1, <2>2 DEF ModeInv
<1> QED
  BY <1>2, <1>3

LEMMA CompatKept ==
  ASSUME OptType, NEW a \in Arguments, Take(a), CompatInv, \A pair \in Exclusive : a.opt \notin pair
  PROVE  CompatInv'
<1>1. \A o : Has(o)' <=> Has(o) \/ a.opt = o
  BY Taken
<1> QED
  BY <1>1 DEF CompatInv

\* Each of two incompatible options refuses the token of the other.
LEMMA RefusedPairs ==
  ASSUME NEW pair \in Exclusive, NEW o \in pair, o \in DOMAIN Word
  PROVE  \E p \in pair : p # o /\ p \in DOMAIN Word \ {"x"} /\ Word[p] \in Refusing(o)
<1>1. CASE pair = {"q", "r"}
  BY <1>1 DEF Word, Refusing
<1>2. CASE pair = {"n", "f"}
  BY <1>2 DEF Word, Refusing
<1>3. CASE pair = {"n", "o"}
  BY <1>3 DEF Word, Refusing
<1>4. CASE pair = {"n", "p"}
  BY <1>4 DEF Word, Refusing
<1>5. CASE pair = {"n", "w"}
  BY <1>5 DEF Word, Refusing
<1>6. CASE pair = {"f", "p"}
  BY <1>6 DEF Word, Refusing
<1>7. CASE pair = {"f", "o"}
  BY <1>7 DEF Word, Refusing
<1>8. CASE pair = {"p", "o"}
  BY <1>8 DEF Word, Refusing
<1>9. CASE pair = {"G", "Q"}
  BY <1>9 DEF Word
<1> QED
  BY <1>1, <1>2, <1>3, <1>4, <1>5, <1>6, <1>7, <1>8, <1>9 DEF Exclusive

LEMMA PlainPairs ==
  \A pair \in Exclusive : pair \cap {"m", "a", "e", "E", "flag", "print", "unknown"} = {}
BY DEF Exclusive

LEMMA TokenOptionStep ==
  ASSUME OptType, ChoiceInv, NEW a \in Arguments, TokenOption(a)
  PROVE  ChoiceInv'
<1> SUFFICES ASSUME stage' # "refused" PROVE (FlagsInv /\ ModeInv /\ TokensInv /\ CompatInv)'
  BY DEF ChoiceInv
<1> DEFINE w == Word[a.opt]
           t == Token(w, a.arg)
<1>1. /\ Take(a) /\ a.opt \in DOMAIN Word /\ \A word \in Refusing(a.opt) : ~Found(word)
      /\ opts' = Append(opts, t) /\ stage' = stage /\ flags' = flags /\ pathscale' = pathscale
  BY DEF TokenOption, Refuse
<1>2. stage = "args" /\ FlagsInv /\ ModeInv /\ TokensInv /\ CompatInv
  BY <1>1 DEF Take, ChoiceInv
<1>3. t \in TokenType /\ t.word = w /\ opts \in Seq(TokenType)
  BY <1>1, ArgumentFacts DEF OptType, Token
<1>4. /\ w \notin LongWords \cup {"MULTIPLEX", "MPX_INTERVAL", "GCC_PROF", "PATHSCALE", "SPEC", "EVENT"}
      /\ \A o \in DOMAIN Word : Word[o] = w => o = a.opt
      /\ w = "MEMORY" <=> a.opt = "x"
      /\ a.opt \notin {"m", "a", "e", "E", "G", "Q", "flag"}
  BY <1>1, WordNames
<1>5. \A u : In(opts', u) <=> In(opts, u) \/ u \in {w}
  BY <1>1, <1>3, InAppend
<1>6. /\ Last(opts', "PATHSCALE", pathscale')
      /\ \A v : Last(opts, "SPEC", v) => Last(opts', "SPEC", v)
  BY <1>1, <1>2, <1>3, <1>4, LastAppend DEF TokensInv
<1> HIDE DEF w, t
<1>7. TokensInv'
  <2>1. \E v \in {"none"} \cup {b.arg : b \in Arguments} : LastGiven("E", v)' /\ Last(opts', "SPEC", v)
    BY <1>1, <1>2, <1>4, <1>6, SpecKept
  <2>2. \A o \in DOMAIN Word \ {"x"} : Word[o] \in {w} <=> a.opt = o
    BY <1>4 DEF w
  <2>3. /\ "MEMORY" \in {w} <=> a.opt \in {"x", "a"}
        /\ "MULTIPLEX" \in {w} <=> a.opt \in {"m", "a"}
        /\ "GCC_PROF" \in {w} <=> a.opt = "G"
        /\ \A u \in LongWords \cup {"EVENT"} : u \notin {w}
    BY <1>4
  <2> QED
    BY <1>1, <1>2, <1>5, <1>6, <2>1, <2>2, <2>3, WordsAdded
<1>8. CompatInv'
  <2>1. \A o : Has(o)' <=> Has(o) \/ a.opt = o
    BY <1>1, Taken
  <2> SUFFICES ASSUME NEW pair \in Exclusive PROVE \E o \in pair : ~Has(o)'
    BY DEF CompatInv
  <2>2. CASE a.opt \notin pair
    BY <2>1, <2>2, <1>2 DEF CompatInv
  <2>3. CASE a.opt \in pair
    <3>1. PICK p \in pair : p # a.opt /\ p \in DOMAIN Word \ {"x"} /\ Word[p] \in Refusing(a.opt)
      BY <1>1, <2>3, RefusedPairs
    <3>2. ~In(opts, Word[p])
      BY <1>1, <1>3, <3>1 DEF Found, In
    <3>3. ~Has(p)
      BY <1>2, <3>1, <3>2 DEF TokensInv
    <3> QED
      BY <2>1, <3>1, <3>3
  <2> QED
    BY <2>2, <2>3
<1> QED
  BY <1>1, <1>2, <1>4, <1>7, <1>8, FlagsKept, ModeKept

LEMMA MultiplexOptionStep ==
  ASSUME OptType, ChoiceInv, NEW a \in Arguments, MultiplexOption(a)
  PROVE  ChoiceInv'
<1> SUFFICES ASSUME stage' # "refused" PROVE (FlagsInv /\ ModeInv /\ TokensInv /\ CompatInv)'
  BY DEF ChoiceInv
<1> DEFINE t == MultiplexTokens(a)
<1>1. /\ Take(a) /\ a.opt = "m" /\ flags' = flags \cup {"multiplex"}
      /\ opts' = opts \o t /\ stage' = stage /\ pathscale' = pathscale
  BY MultiplexFacts DEF MultiplexOption, Refuse
<1>2. stage = "args" /\ FlagsInv /\ ModeInv /\ TokensInv /\ CompatInv
  BY <1>1 DEF Take, ChoiceInv
<1> DEFINE N == {w \in {"MULTIPLEX", "MPX_INTERVAL"} : In(t, w)}
<1>3. /\ t \in Seq(TokenType) /\ opts \in Seq(TokenType)
      /\ In(t, "MULTIPLEX") /\ \A w : In(t, w) => w \in {"MULTIPLEX", "MPX_INTERVAL"}
  BY MultiplexFacts DEF OptType
<1> HIDE DEF t
<1>4. \A w : In(opts', w) <=> In(opts, w) \/ w \in N
  BY <1>1, <1>3, InJoined
<1>5. ~In(t, "PATHSCALE") /\ ~In(t, "SPEC")
  BY <1>3
<1>6. /\ Last(opts', "PATHSCALE", pathscale')
      /\ \A v : Last(opts, "SPEC", v) => Last(opts', "SPEC", v)
  BY <1>1, <1>2, <1>3, <1>5, LastJoined DEF TokensInv
<1>7. TokensInv'
  <2>1. \E v \in {"none"} \cup {b.arg : b \in Arguments} : LastGiven("E", v)' /\ Last(opts', "SPEC", v)
    BY <1>1, <1>2, <1>6, SpecKept
  <2>2. \A o \in DOMAIN Word \ {"x"} : Word[o] \notin N /\ o # "m"
    BY WordNames
  <2>3. /\ "MEMORY" \notin N /\ "GCC_PROF" \notin N /\ "MULTIPLEX" \in N
        /\ \A u \in LongWords \cup {"EVENT"} : u \notin N
    BY <1>3 DEF LongWords
  <2> HIDE DEF N
  <2> QED
    BY <1>1, <1>2, <1>4, <1>6, <2>1, <2>2, <2>3, WordsAdded
<1>8. FlagsInv'
  <2>1. /\ \A o : Has(o)' <=> Has(o) \/ a.opt = o
        /\ \A f : HasFlag(f)' <=> HasFlag(f)
    BY <1>1, Taken
  <2> QED
    BY <2>1, <1>1, <1>2 DEF FlagsInv, LongFlags
<1>9. CompatInv'
  BY <1>1, <1>2, PlainPairs, CompatKept
<1> QED
  BY <1>1, <1>2, <1>7, <1>8, <1>9, ModeKept

LEMMA AutoOptionStep ==
  ASSUME OptType, ChoiceInv, NEW a \in Arguments, AutoOption(a)
  PROVE  ChoiceInv'
<1>1. /\ Take(a) /\ a.opt = "a" /\ flags' = flags \cup {"multiplex", "auto", "skip"}
      /\ opts' = opts \o Implied /\ stage' = stage /\ pathscale' = pathscale
  BY DEF AutoOption
<1>2. stage = "args" /\ FlagsInv /\ ModeInv /\ TokensInv /\ CompatInv
  BY <1>1 DEF Take, ChoiceInv
<1> DEFINE N == {"MULTIPLEX", "MEMORY"}
<1>3. /\ Implied \in Seq(TokenType) /\ opts \in Seq(TokenType)
      /\ \A w : In(Implied, w) <=> w \in N
  BY ImpliedFacts DEF OptType
<1>4. \A w : In(opts', w) <=> In(opts, w) \/ w \in N
  BY <1>1, <1>3, InJoined
<1>5. ~In(Implied, "PATHSCALE") /\ ~In(Implied, "SPEC")
  BY <1>3
<1>6. /\ Last(opts', "PATHSCALE", pathscale')
      /\ \A v : Last(opts, "SPEC", v) => Last(opts', "SPEC", v)
  BY <1>1, <1>2, <1>3, <1>5, LastJoined DEF TokensInv
<1>7. TokensInv'
  <2>1. \E v \in {"none"} \cup {b.arg : b \in Arguments} : LastGiven("E", v)' /\ Last(opts', "SPEC", v)
    BY <1>1, <1>2, <1>6, SpecKept
  <2>2. \A o \in DOMAIN Word \ {"x"} : Word[o] \notin N /\ o # "a"
    BY WordNames
  <2>3. /\ "MEMORY" \in N /\ "GCC_PROF" \notin N /\ "MULTIPLEX" \in N
        /\ \A u \in LongWords \cup {"EVENT"} : u \notin N
    BY DEF LongWords
  <2> HIDE DEF N
  <2> QED
    BY <1>1, <1>2, <1>4, <1>6, <2>1, <2>2, <2>3, WordsAdded
<1>8. FlagsInv'
  <2>1. /\ \A o : Has(o)' <=> Has(o) \/ a.opt = o
        /\ \A f : HasFlag(f)' <=> HasFlag(f)
    BY <1>1, Taken
  <2> QED
    BY <2>1, <1>1, <1>2 DEF FlagsInv, LongFlags
<1>9. CompatInv'
  BY <1>1, <1>2, PlainPairs, CompatKept
<1> QED
  BY <1>1, <1>2, <1>7, <1>8, <1>9, ModeKept DEF ChoiceInv

\* An option that appends no token.
LEMMA NoWordsAdded ==
  ASSUME OptType, NEW a \in Arguments, Take(a), TokensInv, stage' = "args", opts' = opts, pathscale' = pathscale,
         a.opt \notin DOMAIN Word \cup {"a", "m", "G", "E"}
  PROVE  TokensInv'
<1>1. \E v \in {"none"} \cup {b.arg : b \in Arguments} : LastGiven("E", v)' /\ Last(opts', "SPEC", v)
  BY SpecKept
<1>2. Last(opts', "PATHSCALE", pathscale')
  BY DEF TokensInv
<1> DEFINE N == {}
<1>3. /\ \A w : In(opts', w) <=> In(opts, w) \/ w \in N
      /\ \A o \in DOMAIN Word \ {"x"} : Word[o] \in N <=> a.opt = o
      /\ "MEMORY" \in N <=> a.opt \in {"x", "a"}
      /\ "MULTIPLEX" \in N <=> a.opt \in {"m", "a"}
      /\ "GCC_PROF" \in N <=> a.opt = "G"
      /\ \A w \in LongWords \cup {"EVENT"} : w \notin N
  BY WordNames
<1> HIDE DEF N
<1> QED
  BY <1>1, <1>2, <1>3, WordsAdded

LEMMA OtherWords ==
  DOMAIN Word \cap {"m", "a", "e", "E", "G", "Q", "flag", "print", "unknown"} = {}
BY WordNames

LEMMA EventOptionStep ==
  ASSUME OptType, ChoiceInv, NEW a \in Arguments, EventOption(a)
  PROVE  ChoiceInv'
<1>1. Take(a) /\ a.opt = "e" /\ flags' = flags /\ opts' = opts /\ stage' = stage /\ pathscale' = pathscale
  BY DEF EventOption
<1>2. stage = "args" /\ FlagsInv /\ ModeInv /\ TokensInv /\ CompatInv
  BY <1>1 DEF Take, ChoiceInv
<1>3. TokensInv'
  BY <1>1, <1>2, OtherWords, NoWordsAdded
<1>4. CompatInv'
  BY <1>1, <1>2, PlainPairs, CompatKept
<1> QED
  BY <1>1, <1>2, <1>3, <1>4, FlagsKept, ModeKept DEF ChoiceInv

LEMMA FlagOptionStep ==
  ASSUME OptType, ChoiceInv, NEW a \in Arguments, FlagOption(a)
  PROVE  ChoiceInv'
<1>1. /\ Take(a) /\ a.opt = "flag" /\ flags' = flags \cup {a.arg} /\ a.arg \in LongFlags
      /\ opts' = opts /\ stage' = stage /\ pathscale' = pathscale
  BY ArgumentFacts DEF FlagOption
<1>2. stage = "args" /\ FlagsInv /\ ModeInv /\ TokensInv /\ CompatInv
  BY <1>1 DEF Take, ChoiceInv
<1>3. TokensInv'
  BY <1>1, <1>2, OtherWords, NoWordsAdded
<1>4. CompatInv'
  BY <1>1, <1>2, PlainPairs, CompatKept
<1>5. FlagsInv'
  <2>1. /\ \A o : Has(o)' <=> Has(o) \/ a.opt = o
        /\ \A f : HasFlag(f)' <=> HasFlag(f) \/ a.arg = f
    BY <1>1, Taken
  <2>2. a.arg \notin {"multiplex", "auto", "gcc"}
    BY <1>1 DEF LongFlags
  <2> QED
    BY <2>1, <2>2, <1>1, <1>2 DEF FlagsInv
<1> QED
  BY <1>1, <1>2, <1>3, <1>4, <1>5, ModeKept DEF ChoiceInv

LEMMA PrintOptionStep ==
  ASSUME NEW a \in Arguments, PrintOption(a)
  PROVE  ChoiceInv'
BY DEF PrintOption, ChoiceInv

LEMMA SpecOptionStep ==
  ASSUME OptType, ChoiceInv, NEW a \in Arguments, SpecOption(a)
  PROVE  ChoiceInv'
<1> SUFFICES ASSUME stage' # "refused" PROVE (FlagsInv /\ ModeInv /\ TokensInv /\ CompatInv)'
  BY DEF ChoiceInv
<1> DEFINE t == Token("SPEC", a.arg)
<1>1. /\ Take(a) /\ a.opt = "E" /\ flags' = flags /\ opts' = Append(opts, t)
      /\ stage' = stage /\ pathscale' = pathscale
  BY DEF SpecOption, Refuse
<1>2. stage = "args" /\ FlagsInv /\ ModeInv /\ TokensInv /\ CompatInv
  BY <1>1 DEF Take, ChoiceInv
<1>3. t \in TokenType /\ t.word = "SPEC" /\ t.arg = a.arg /\ opts \in Seq(TokenType)
  BY ArgumentFacts, WordsGiven DEF OptType
<1> HIDE DEF t
<1>4. \A w : In(opts', w) <=> In(opts, w) \/ w \in {"SPEC"}
  BY <1>1, <1>3, InAppend
<1>5. Last(opts', "PATHSCALE", pathscale') /\ Last(opts', "SPEC", a.arg)
  BY <1>1, <1>2, <1>3, LastAppend DEF TokensInv
<1>6. TokensInv'
  <2>1. LastGiven("E", a.arg)'
    BY <1>1, LastTaken
  <2>2. \E v \in {"none"} \cup {b.arg : b \in Arguments} : LastGiven("E", v)' /\ Last(opts', "SPEC", v)
    BY <2>1, <1>5
  <2>3. \A o \in DOMAIN Word \ {"x"} : Word[o] \notin {"SPEC"} /\ o # "E"
    BY WordNames
  <2>4. \A u \in LongWords \cup {"EVENT"} : u \notin {"SPEC"}
    BY DEF LongWords
  <2> QED
    BY <1>1, <1>2, <1>4, <1>5, <2>2, <2>3, <2>4, WordsAdded
<1>7. CompatInv'
  BY <1>1, <1>2, PlainPairs, CompatKept
<1> QED
  BY <1>1, <1>2, <1>6, <1>7, FlagsKept, ModeKept

\* -G and -Q look for each other's flag.
LEMMA ProfilePairs ==
  \A pair \in Exclusive : pair \cap {"G", "Q"} # {} => pair = {"G", "Q"}
BY DEF Exclusive

LEMMA ModeGiven ==
  ASSUME OptType, ModeInv
  PROVE  pathscale = "none" <=> ~Has("Q")
<1>1. \A v \in Profiles : (IF v = "" THEN "all" ELSE v) # "none"
  BY DEF Profiles
<1> QED
  BY <1>1 DEF ModeInv

LEMMA GOptionStep ==
  ASSUME OptType, ChoiceInv, NEW a \in Arguments, do_G_option(a)
  PROVE  ChoiceInv'
<1> SUFFICES ASSUME stage' # "refused" PROVE (FlagsInv /\ ModeInv /\ TokensInv /\ CompatInv)'
  BY DEF ChoiceInv
<1> DEFINE t == Token("GCC_PROF", "")
<1>1. /\ Take(a) /\ a.opt = "G" /\ flags' = flags \cup {"gcc"} /\ opts' = Append(opts, t)
      /\ stage' = stage /\ pathscale' = pathscale /\ pathscale = "none"
  BY DEF do_G_option, Refuse
<1>2. stage = "args" /\ FlagsInv /\ ModeInv /\ TokensInv /\ CompatInv
  BY <1>1 DEF Take, ChoiceInv
<1>3. t \in TokenType /\ t.word = "GCC_PROF" /\ opts \in Seq(TokenType)
  BY WordsGiven DEF OptType
<1> HIDE DEF t
<1>4. \A w : In(opts', w) <=> In(opts, w) \/ w \in {"GCC_PROF"}
  BY <1>1, <1>3, InAppend
<1>5. /\ Last(opts', "PATHSCALE", pathscale')
      /\ \A v : Last(opts, "SPEC", v) => Last(opts', "SPEC", v)
  BY <1>1, <1>2, <1>3, LastAppend DEF TokensInv
<1>6. TokensInv'
  <2>1. \E v \in {"none"} \cup {b.arg : b \in Arguments} : LastGiven("E", v)' /\ Last(opts', "SPEC", v)
    BY <1>1, <1>2, <1>5, SpecKept
  <2>2. \A o \in DOMAIN Word \ {"x"} : Word[o] \notin {"GCC_PROF"} /\ o # "G"
    BY WordNames
  <2>3. \A u \in LongWords \cup {"EVENT"} : u \notin {"GCC_PROF"}
    BY DEF LongWords
  <2> QED
    BY <1>1, <1>2, <1>4, <1>5, <2>1, <2>2, <2>3, WordsAdded
<1>7. /\ \A o : Has(o)' <=> Has(o) \/ a.opt = o
      /\ \A f : HasFlag(f)' <=> HasFlag(f)
  BY <1>1, Taken
<1>8. FlagsInv'
  BY <1>1, <1>2, <1>7 DEF FlagsInv, LongFlags
<1>9. CompatInv'
  <2>1. ~Has("Q")'
    BY <1>1, <1>2, <1>7, ModeGiven
  <2> QED
    BY <2>1, <1>1, <1>2, <1>7, ProfilePairs DEF CompatInv
<1> QED
  BY <1>1, <1>2, <1>6, <1>8, <1>9, ModeKept

LEMMA QOptionStep ==
  ASSUME OptType, ChoiceInv, NEW a \in Arguments, do_Q_option(a)
  PROVE  ChoiceInv'
<1> SUFFICES ASSUME stage' # "refused" PROVE (FlagsInv /\ ModeInv /\ TokensInv /\ CompatInv)'
  BY DEF ChoiceInv
<1> DEFINE m == IF a.arg = "" THEN "all" ELSE a.arg
           t == Token("PATHSCALE", m)
<1>1. /\ Take(a) /\ a.opt = "Q" /\ flags' = flags /\ opts' = Append(opts, t)
      /\ stage' = stage /\ pathscale' = m /\ "gcc" \notin flags /\ a.arg \in Profiles
  BY DEF do_Q_option, Refuse
<1>2. stage = "args" /\ FlagsInv /\ ModeInv /\ TokensInv /\ CompatInv
  BY <1>1 DEF Take, ChoiceInv
<1>3. t \in TokenType /\ t.word = "PATHSCALE" /\ t.arg = m /\ opts \in Seq(TokenType)
  <2>1. m \in Text
    BY ArgumentFacts, WordsGiven
  <2> QED
    BY <2>1, WordsGiven DEF OptType
<1>4. \A o : Has(o)' <=> Has(o) \/ a.opt = o
  BY <1>1, Taken
<1>5. ModeInv'
  <2>1. LastGiven("Q", a.arg)' /\ Has("Q")'
    BY <1>1, <1>4, LastTaken
  <2> QED
    BY <2>1, <1>1 DEF ModeInv
<1> HIDE DEF t, m
<1>6. \A w : In(opts', w) <=> In(opts, w) \/ w \in {"PATHSCALE"}
  BY <1>1, <1>3, InAppend
<1>7. /\ Last(opts', "PATHSCALE", pathscale')
      /\ \A v : Last(opts, "SPEC", v) => Last(opts', "SPEC", v)
  BY <1>1, <1>3, LastAppend
<1>8. TokensInv'
  <2>1. \E v \in {"none"} \cup {b.arg : b \in Arguments} : LastGiven("E", v)' /\ Last(opts', "SPEC", v)
    BY <1>1, <1>2, <1>7, SpecKept
  <2>2. \A o \in DOMAIN Word \ {"x"} : Word[o] \notin {"PATHSCALE"} /\ o # "Q"
    BY WordNames
  <2>3. \A u \in LongWords \cup {"EVENT"} : u \notin {"PATHSCALE"}
    BY DEF LongWords
  <2> QED
    BY <1>1, <1>2, <1>6, <1>7, <2>1, <2>2, <2>3, WordsAdded
<1>9. CompatInv'
  <2>1. ~Has("G")'
    BY <1>1, <1>2, <1>4 DEF FlagsInv
  <2> QED
    BY <2>1, <1>1, <1>2, <1>4, ProfilePairs DEF CompatInv
<1> QED
  BY <1>1, <1>2, <1>5, <1>8, <1>9, FlagsKept

-----------------------------------------------------------------------------
(* The steps after the options *)

\* What they leave alone of the options.
LEMMA LaterSteps ==
  ASSUME UsefulEventsAdded \/ TestEvents \/ make_compatible_eventset \/ Launch \/ monitor_init_library \/ InitRoutines
  PROVE  /\ given' = given /\ opts' = opts /\ pathscale' = pathscale
         /\ flags' \in {flags, flags \cup {"not_all_added"}} \/ ("test" \in flags /\ flags' = flags \cup {"skip"})
         /\ stage \notin {"refused", "printed"}
         /\ stage' \notin {"refused", "printed"} => (stage \in Early <=> stage' \in Early)
         /\ stage \notin Early => flags' = flags /\ events' = events
<1>1. CASE UsefulEventsAdded
  BY <1>1 DEF UsefulEventsAdded, Early
<1>2. CASE TestEvents
  BY <1>2 DEF TestEvents, Early
<1>3. CASE make_compatible_eventset
  BY <1>3 DEF make_compatible_eventset, Early
<1>4. CASE Launch
  BY <1>4 DEF Launch, Early
<1>5. CASE monitor_init_library
  BY <1>5 DEF monitor_init_library, Early
<1>6. CASE InitRoutines
  BY <1>6 DEF InitRoutines, Early
<1> QED
  BY <1>1, <1>2, <1>3, <1>4, <1>5, <1>6

LEMMA SameOptions ==
  ASSUME given' = given
  PROVE  /\ \A o : Has(o)' <=> Has(o)
         /\ \A f : HasFlag(f)' <=> HasFlag(f)
         /\ \A o, v : LastGiven(o, v)' <=> LastGiven(o, v)
BY DEF Has, HasFlag, LastGiven

\* The flags when only their derived ones change.
LEMMA FlagsLater ==
  ASSUME FlagsInv, given' = given,
         flags' \in {flags, flags \cup {"not_all_added"}} \/ ("test" \in flags /\ flags' = flags \cup {"skip"})
  PROVE  FlagsInv' /\ \A f \in LongFlags \ {"skip"} : f \in flags' <=> f \in flags
<1>1. /\ \A o : Has(o)' <=> Has(o)
      /\ \A f : HasFlag(f)' <=> HasFlag(f)
  BY SameOptions
<1>2. \A f \in (LongFlags \ {"skip"}) \cup {"multiplex", "auto", "gcc"} : f \in flags' <=> f \in flags
  BY DEF LongFlags
<1>3. "skip" \in flags' => HasFlag("skip") \/ Has("a") \/ HasFlag("test")
  BY DEF FlagsInv, LongFlags
<1> QED
  BY <1>1, <1>2, <1>3 DEF FlagsInv

LEMMA LaterChoice ==
  ASSUME ChoiceInv,
         UsefulEventsAdded \/ TestEvents \/ make_compatible_eventset \/ Launch \/ monitor_init_library \/ InitRoutines
  PROVE  ChoiceInv'
<1> SUFFICES ASSUME stage' \notin {"refused", "printed"} PROVE (FlagsInv /\ ModeInv /\ TokensInv /\ CompatInv)'
  BY DEF ChoiceInv
<1>1. /\ given' = given /\ opts' = opts /\ pathscale' = pathscale
      /\ flags' \in {flags, flags \cup {"not_all_added"}} \/ ("test" \in flags /\ flags' = flags \cup {"skip"})
      /\ stage \notin {"refused", "printed"}
      /\ stage \in Early <=> stage' \in Early
      /\ stage \notin Early => flags' = flags
  BY LaterSteps
<1>2. FlagsInv /\ ModeInv /\ TokensInv /\ CompatInv
  BY <1>1 DEF ChoiceInv
<1>3. /\ \A o : Has(o)' <=> Has(o)
      /\ \A o, v : LastGiven(o, v)' <=> LastGiven(o, v)
  BY <1>1, SameOptions
<1>4. FlagsInv'
  BY <1>1, <1>2, FlagsLater
<1>5. ModeInv'
  BY <1>1, <1>2, <1>3 DEF ModeInv
<1>6. CompatInv'
  BY <1>2, <1>3 DEF CompatInv
<1>7. TokensInv'
  <2>1. \A w : stage' \notin Early /\ LongWord(w)' <=> stage \notin Early /\ LongWord(w)
    BY <1>1 DEF LongWord
  <2> QED
    BY <1>1, <1>2, <1>3, <2>1 DEF TokensInv
<1> QED
  BY <1>4, <1>5, <1>6, <1>7

\* The tokens of the events and the flags come last.
LEMMA AppendTokensFacts ==
  ASSUME OptType, AppendTokens
  PROVE  /\ opts' \in Seq(TokenType) /\ opts \o EventTokens \in Seq(TokenType)
         /\ opts' = (opts \o EventTokens) \o LongTokens
         /\ \A w : In(opts', w) <=> In(opts, w) \/ In(EventTokens, w) \/ LongWord(w)
<1>1. opts \in Seq(TokenType) /\ EventTokens \in Seq(TokenType) /\ LongTokens \in Seq(TokenType)
  BY EventTokenFacts, LongTokenFacts DEF OptType
<1>2. opts \o EventTokens \in Seq(TokenType)
  BY <1>1, Joined
<1>3. opts' = (opts \o EventTokens) \o LongTokens
  BY DEF AppendTokens, EventTokens
<1>4. opts' \in Seq(TokenType)
  BY <1>1, <1>2, <1>3, Joined
<1>5. \A w : In(opts', w) <=> In(opts \o EventTokens, w) \/ In(LongTokens, w)
  BY <1>1, <1>2, <1>3, InJoined
<1>6. \A w : In(opts \o EventTokens, w) <=> In(opts, w) \/ In(EventTokens, w)
  BY <1>1, InJoined
<1> QED
  BY <1>2, <1>3, <1>4, <1>5, <1>6, LongTokenFacts

LEMMA AppendTokensChoice ==
  ASSUME OptType, ChoiceInv, AppendTokens
  PROVE  ChoiceInv'
<1> SUFFICES ASSUME stage' \notin {"refused", "printed"} PROVE (FlagsInv /\ ModeInv /\ TokensInv /\ CompatInv)'
  BY DEF ChoiceInv
<1>1. stage = "tokens" /\ stage' = "launch" /\ given' = given /\ flags' = flags /\ pathscale' = pathscale
  BY DEF AppendTokens
<1>2. FlagsInv /\ ModeInv /\ TokensInv /\ CompatInv
  BY <1>1 DEF ChoiceInv
<1>3. /\ \A o : Has(o)' <=> Has(o)
      /\ \A o, v : LastGiven(o, v)' <=> LastGiven(o, v)
  BY <1>1, SameOptions
<1>4. FlagsInv' /\ ModeInv' /\ CompatInv'
  BY <1>1, <1>2, <1>3, FlagsLater DEF ModeInv, CompatInv
<1>5. /\ \A w : In(opts', w) <=> In(opts, w) \/ In(EventTokens, w) \/ LongWord(w)
      /\ \A w : In(EventTokens, w) => w = "EVENT"
      /\ opts \in Seq(TokenType) /\ EventTokens \in Seq(TokenType) /\ LongTokens \in Seq(TokenType)
      /\ opts \o EventTokens \in Seq(TokenType) /\ opts' = (opts \o EventTokens) \o LongTokens
  BY AppendTokensFacts, EventTokenFacts, LongTokenFacts DEF OptType
<1>6. \A w : LongWord(w) => w \in LongWords
  BY DEF LongWord, LongWords
<1>7. ASSUME NEW w \in {"PATHSCALE", "SPEC"}, NEW v, Last(opts, w, v) PROVE Last(opts', w, v)
  <2>1. ~In(EventTokens, w) /\ ~In(LongTokens, w)
    BY <1>5, <1>6, LongTokenFacts DEF LongWords
  <2>2. Last(opts \o EventTokens, w, v)
    BY <1>5, <1>7, <2>1, LastJoined
  <2> QED
    BY <1>5, <2>1, <2>2, LastJoined
<1>8. TokensInv'
  <2>1. \A w \in {"MEMORY", "MULTIPLEX", "GCC_PROF"} \cup {Word[o] : o \in DOMAIN Word} : In(opts', w) <=> In(opts, w)
    <3>1. \A w \in {"MEMORY", "MULTIPLEX", "GCC_PROF"} \cup {Word[o] : o \in DOMAIN Word} : w \notin LongWords \cup {"EVENT"}
      BY WordNames DEF LongWords
    <3> QED
      BY <1>5, <1>6, <3>1
  <2>2. stage' \notin Early /\ stage \in Early
    BY <1>1 DEF Early
  <2>3. \A w \in LongWords : In(opts', w) <=> LongWord(w)'
    <3>1. "EVENT" \notin LongWords
      BY DEF LongWords
    <3>2. \A w : LongWord(w)' <=> LongWord(w)
      BY <1>1 DEF LongWord
    <3> QED
      BY <1>2, <1>5, <2>2, <3>1, <3>2 DEF TokensInv
  <2>4. Last(opts', "PATHSCALE", pathscale')
    BY <1>1, <1>2, <1>7 DEF TokensInv
  <2>5. \E v \in {"none"} \cup {a.arg : a \in Arguments} : LastGiven("E", v)' /\ Last(opts', "SPEC", v)
    BY <1>2, <1>3, <1>7 DEF TokensInv
  <2>6. \A o \in DOMAIN Word \ {"x"} : In(opts', Word[o]) <=> Has(o)'
    BY <1>2, <1>3, <2>1 DEF TokensInv
  <2>7. /\ In(opts', "MEMORY") <=> Has("x")' \/ Has("a")'
        /\ In(opts', "MULTIPLEX") <=> Has("m")' \/ Has("a")'
        /\ In(opts', "GCC_PROF") <=> Has("G")'
    BY <1>2, <1>3, <2>1 DEF TokensInv
  <2> QED
    BY <2>2, <2>3, <2>4, <2>5, <2>6, <2>7 DEF TokensInv
<1> QED
  BY <1>4, <1>8

LEMMA TypesKept ==
  ASSUME OptType, [Next]_vars
  PROVE  OptType'
<1>0. /\ given \in Seq(Arguments) /\ opts \in Seq(TokenType) /\ events \in Seq(Text) /\ kept \in Seq(Text)
      /\ at \in Nat /\ lib \in LibType
  BY DEF OptType
<1>1. ASSUME NEW a \in Arguments, Option(a) PROVE OptType'
  BY <1>1, OptionTypes
<1>2. CASE UsefulEventsAdded
  <2>1. events \o UsefulEvents \in Seq(Text)
    BY <1>0, EventsText, Joined
  <2>2. events' \in Seq(Text)
    BY <1>0, <1>2, <2>1 DEF UsefulEventsAdded
  <2> QED
    BY <1>0, <1>2, <2>2 DEF UsefulEventsAdded, OptType
<1>3. CASE TestEvents
  BY <1>0, <1>3 DEF TestEvents, OptType
<1>4. CASE make_compatible_eventset
  <2>1. CASE at < Len(events) /\ at' = at + 1 /\ kept' = (IF Fits(events[at']) THEN Append(kept, events[at']) ELSE kept) /\ events' = events
    <3>1. at' \in Nat /\ events[at'] \in Text
      BY <1>0, <2>1
    <3>2. kept' \in Seq(Text)
      BY <1>0, <2>1, <3>1
    <3> QED
      BY <1>0, <1>4, <2>1, <3>1, <3>2 DEF make_compatible_eventset, OptType
  <2>2. CASE at' = 0 /\ events' = kept /\ kept' = kept
    BY <1>0, <1>4, <2>2 DEF make_compatible_eventset, OptType
  <2> QED
    BY <1>4, <2>1, <2>2 DEF make_compatible_eventset
<1>5. CASE AppendTokens
  BY <1>0, <1>5, AppendTokensFacts DEF AppendTokens, OptType
<1>6. CASE Launch
  BY <1>0, <1>6 DEF Launch, OptType
<1>7. CASE monitor_init_library
  <2>1. CASE at < Len(opts) /\ at' = at + 1 /\ lib' = Decode(lib, opts[at'])
    <3>1. at' \in Nat /\ opts[at'] \in TokenType
      BY <1>0, <2>1
    <3>2. lib' \in LibType
      BY <1>0, <2>1, <3>1, Decoded
    <3> QED
      BY <1>0, <1>7, <3>1, <3>2 DEF monitor_init_library, OptType
  <2>2. CASE lib' = LookUp(Adjusted(lib)) /\ at' = at
    <3>1. lib' \in LibType
      BY <1>0, <2>2, AdjustedFacts
    <3> QED
      BY <1>0, <1>7, <2>2, <3>1 DEF monitor_init_library, OptType
  <2> QED
    BY <1>7, <2>1, <2>2 DEF monitor_init_library
<1>8. CASE InitRoutines
  <2>1. lib' \in LibType
    BY <1>0, <1>8, CountedFacts
  <2> QED
    BY <1>0, <1>8, <2>1 DEF InitRoutines, OptType
<1>9. CASE UNCHANGED vars
  BY <1>0, <1>9 DEF vars, OptType
<1> QED
  BY <1>1, <1>2, <1>3, <1>4, <1>5, <1>6, <1>7, <1>8, <1>9 DEF Next

LEMMA ChoiceInit == Init => ChoiceInv
<1> SUFFICES ASSUME Init PROVE ChoiceInv
  OBVIOUS
<1>1. /\ stage = "args" /\ given = <<>> /\ opts = <<>> /\ flags = {} /\ pathscale = "none"
  BY DEF Init
<1>2. (\A o : ~Has(o)) /\ (\A f : ~HasFlag(f)) /\ \A o : LastGiven(o, "none")
  BY <1>1 DEF Has, HasFlag, LastGiven
<1>3. (\A w : ~In(opts, w)) /\ \A w : Last(opts, w, "none")
  BY <1>1, InNone DEF Last
<1>4. FlagsInv
  BY <1>1, <1>2 DEF FlagsInv
<1>5. ModeInv /\ CompatInv
  BY <1>1, <1>2 DEF ModeInv, CompatInv, Exclusive
<1>6. TokensInv
  <2>1. stage \in Early
    BY <1>1 DEF Early
  <2>2. LastGiven("E", "none") /\ Last(opts, "SPEC", "none") /\ Last(opts, "PATHSCALE", pathscale)
    BY <1>1, <1>2, <1>3
  <2> QED
    BY <1>2, <1>3, <2>1, <2>2 DEF TokensInv
<1> QED
  BY <1>4, <1>5, <1>6 DEF ChoiceInv

LEMMA ChoiceStep ==
  ASSUME OptType, ChoiceInv, [Next]_vars
  PROVE  ChoiceInv'
<1>1. ASSUME NEW a \in Arguments, Option(a) PROVE ChoiceInv'
  BY <1>1, TokenOptionStep, MultiplexOptionStep, AutoOptionStep, EventOptionStep, SpecOptionStep, GOptionStep,
     QOptionStep, FlagOptionStep, PrintOptionStep DEF Option
<1>2. CASE UNCHANGED vars
  <2>1. /\ \A o : Has(o)' <=> Has(o)
        /\ \A f : HasFlag(f)' <=> HasFlag(f)
        /\ \A o, v : LastGiven(o, v)' <=> LastGiven(o, v)
        /\ \A w : LongWord(w)' <=> LongWord(w)
    BY <1>2, SameOptions DEF vars, LongWord
  <2>2. stage' = stage /\ opts' = opts /\ flags' = flags /\ pathscale' = pathscale
    BY <1>2 DEF vars
  <2>3. CASE stage \in {"refused", "printed"}
    BY <2>2, <2>3 DEF ChoiceInv
  <2>4. CASE stage \notin {"refused", "printed"}
    <3>1. FlagsInv /\ ModeInv /\ TokensInv /\ CompatInv
      BY <2>4 DEF ChoiceInv
    <3>2. FlagsInv'
      BY <2>1, <2>2, <3>1 DEF FlagsInv
    <3>3. ModeInv' /\ CompatInv'
      BY <2>1, <2>2, <3>1 DEF ModeInv, CompatInv
    <3>4. TokensInv'
      BY <2>1, <2>2, <3>1 DEF TokensInv
    <3> QED
      BY <3>2, <3>3, <3>4 DEF ChoiceInv
  <2> QED
    BY <2>3, <2>4
<1> QED
  BY <1>1, <1>2, LaterChoice, AppendTokensChoice DEF Next

\* CompatibleOnly for any arguments: whatever the order in which parse_args meets two
\* incompatible options, the second finds the token or the flag of the first, and the
\* command is refused (main.c:515-625).
THEOREM IncompatibleRefused == Spec => []CompatibleOnly
<1>1. Init => OptType /\ ChoiceInv
  BY TypesInit, ChoiceInit
<1>2. OptType /\ ChoiceInv /\ [Next]_vars => (OptType /\ ChoiceInv)'
  BY TypesKept, ChoiceStep
<1>3. ChoiceInv => CompatibleOnly
  BY DEF ChoiceInv, CompatInv, CompatibleOnly
<1> QED
  BY <1>1, <1>2, <1>3, PTL DEF Spec

-----------------------------------------------------------------------------
(* The library reads the tokens *)

LEMMA Prefixes ==
  ASSUME NEW S, NEW s \in Seq(S)
  PROVE  /\ SubSeq(s, 1, 0) = <<>> /\ SubSeq(s, 1, Len(s)) = s /\ Len(s) \in Nat
         /\ \A n \in 0 .. Len(s) : SubSeq(s, 1, n) \in Seq(S) /\ Len(SubSeq(s, 1, n)) = n /\ \A i \in 1 .. n : SubSeq(s, 1, n)[i] = s[i]
         /\ \A n \in 0 .. Len(s) - 1 : SubSeq(s, 1, n + 1) = Append(SubSeq(s, 1, n), s[n + 1])
<1>1. SubSeq(s, 1, 0) = <<>> /\ SubSeq(s, 1, Len(s)) = s /\ Len(s) \in Nat
  OBVIOUS
<1>2. \A n \in 0 .. Len(s) : SubSeq(s, 1, n) \in Seq(S) /\ Len(SubSeq(s, 1, n)) = n /\ \A i \in 1 .. n : SubSeq(s, 1, n)[i] = s[i]
  BY <1>1
<1>3. ASSUME NEW n \in 0 .. Len(s) - 1 PROVE SubSeq(s, 1, n + 1) = Append(SubSeq(s, 1, n), s[n + 1])
  BY <1>1, <1>3
<1> QED
  BY <1>1, <1>2, <1>3

\* A round of the loop.
LEMMA RoundDecodes ==
  ASSUME NEW s \in LibType, NEW p \in Seq(TokenType), NEW t \in TokenType, Decodes(s, p)
  PROVE  Decodes(Decode(s, t), Append(p, t))
<1> DEFINE d == Decode(s, t)
           q == Append(p, t)
           w == t.word
<1>1. /\ d \in LibType /\ d.gates = s.gates
      /\ d.set = (IF w \in {"QUIET", "PATHSCALE", "SPEC", "EVENT"} \cup Domains \cup DOMAIN Outputs \cup DOMAIN Unset
                  THEN s.set ELSE IF w = "CSV" THEN s.set \cup {"CSV", "NEXTGEN"} ELSE s.set \cup {w})
      /\ d.domain = (IF w \in Domains THEN s.domain \cup {w} ELSE s.domain)
      /\ d.pathscale = (IF w = "PATHSCALE" THEN t.arg ELSE s.pathscale)
      /\ d.spec = (IF w = "SPEC" THEN t.arg ELSE s.spec)
      /\ d.output = (IF w \in DOMAIN Outputs THEN Outputs[w] ELSE s.output)
      /\ d.no_prof = (IF w \in DOMAIN Unset THEN s.no_prof \cup {Unset[w]} ELSE s.no_prof)
  BY Decoded
<1>2. \A u : In(q, u) <=> In(p, u) \/ w = u
  BY InAppend
<1>3. w \in Words
  BY DEF TokenType
<1>4. /\ Last(q, "PATHSCALE", d.pathscale)
      /\ Last(q, "SPEC", d.spec)
  BY <1>1, LastAppend DEF Decodes, Reads
<1> HIDE DEF d, q, w
<1>5. d.domain = {u \in Domains : In(q, u)}
  BY <1>1, <1>2 DEF Decodes, Reads
<1>6. \/ d.output = "none" /\ \A u \in DOMAIN Outputs : ~In(q, u)
      \/ \E u \in DOMAIN Outputs : In(q, u) /\ d.output = Outputs[u]
  BY <1>1, <1>2 DEF Decodes, Reads
<1>7. d.no_prof = NoProf(q)
  BY <1>1, <1>2 DEF Decodes, NoProf
<1>8. d.set = {x \in Words : Setting(q, x)}
  <2> DEFINE Plain == {"QUIET", "PATHSCALE", "SPEC", "EVENT"} \cup Domains \cup DOMAIN Outputs \cup DOMAIN Unset
  <2>1. \A x : Setting(q, x) <=> Setting(p, x) \/ (x \notin Plain /\ x = w) \/ (x = "NEXTGEN" /\ w = "CSV")
    BY <1>2 DEF Setting
  <2>2. "NEXTGEN" \in Words /\ "CSV" \in Words /\ "CSV" \notin Plain
    BY DEF Words, Domains, Outputs, Unset
  <2>3. /\ w \in Plain => d.set = s.set
        /\ w \notin Plain /\ w = "CSV" => d.set = s.set \cup {"CSV", "NEXTGEN"}
        /\ w \notin Plain /\ w # "CSV" => d.set = s.set \cup {w}
    BY <1>1
  <2> HIDE DEF Plain
  <2> QED
    BY <1>3, <2>1, <2>2, <2>3 DEF Decodes
<1> QED
  BY <1>4, <1>5, <1>6, <1>7, <1>8 DEF Decodes, Reads, d, q

LEMMA DefaultsDecode == Decodes(Defaults, <<>>)
<1>1. \A w : ~In(<<>>, w) /\ Last(<<>>, w, "none") /\ ~Setting(<<>>, w)
  BY InNone DEF Last, Setting
<1>2. NoProf(<<>>) = {"threadsync"}
  BY <1>1 DEF NoProf
<1> QED
  BY <1>1, <1>2 DEF Decodes, Reads, Defaults

LEMMA LibStep ==
  ASSUME OptType, LibInv, [Next]_vars
  PROVE  LibInv'
<1>0. opts \in Seq(TokenType) /\ at \in Nat /\ lib \in LibType
  BY DEF OptType
<1>1. ASSUME NEW a \in Arguments, Option(a) PROVE LibInv'
  <2>1. stage = "args" /\ Take(a) /\ stage' \in {"args", "refused", "printed"}
    BY <1>1 DEF Option, TokenOption, MultiplexOption, AutoOption, EventOption, SpecOption, do_G_option, do_Q_option,
           FlagOption, PrintOption, Take, Refuse
  <2> QED
    BY <2>1 DEF LibInv, Take, Late, Early
<1>2. CASE UsefulEventsAdded
  BY <1>2 DEF UsefulEventsAdded, LibInv, Late, Early
<1>3. CASE TestEvents
  BY <1>3 DEF TestEvents, LibInv, Late, Early
<1>4. CASE make_compatible_eventset
  BY <1>4 DEF make_compatible_eventset, LibInv, Late, Early
<1>5. CASE AppendTokens
  BY <1>5 DEF AppendTokens, LibInv, Late, Early
<1>6. CASE Launch
  <2>1. lib = Defaults /\ at = 0 /\ lib' = lib /\ at' = at /\ opts' = opts /\ stage' \in {"refused", "printed", "library"}
    BY <1>6 DEF Launch, LibInv
  <2>2. preload' = Libraries'
    BY <1>6 DEF Launch, Libraries
  <2>3. at <= Len(opts) /\ SubSeq(opts, 1, at) = <<>>
    BY <1>0, <2>1
  <2> QED
    BY <2>1, <2>2, <2>3, DefaultsDecode DEF LibInv, Late, Early
<1>7. CASE monitor_init_library
  <2>1. opts' = opts /\ preload' = preload /\ preload' = Libraries' /\ stage = "library" /\ at <= Len(opts) /\ Decodes(lib, SubSeq(opts, 1, at))
    BY <1>7 DEF monitor_init_library, LibInv, Late, Libraries
  <2>2. CASE at < Len(opts) /\ at' = at + 1 /\ lib' = Decode(lib, opts[at']) /\ stage' \in {"library", "refused"}
    <3>1. at \in 0 .. Len(opts) - 1 /\ at' <= Len(opts) /\ opts[at'] \in TokenType
      BY <1>0, <2>2
    <3>2. SubSeq(opts', 1, at') = Append(SubSeq(opts, 1, at), opts[at']) /\ SubSeq(opts, 1, at) \in Seq(TokenType)
      BY <1>0, <2>1, <2>2, <3>1, Prefixes
    <3>3. Decodes(lib', SubSeq(opts', 1, at'))
      BY <1>0, <2>1, <2>2, <3>1, <3>2, RoundDecodes
    <3> QED
      BY <2>1, <2>2, <3>1, <3>3 DEF LibInv, Late, Early
  <2>3. CASE at = Len(opts) /\ lib' = LookUp(Adjusted(lib)) /\ stage' = "process" /\ at' = at
    <3>1. Decodes(lib, opts)
      BY <1>0, <2>1, <2>3, Prefixes
    <3>2. /\ lib'.set = (IF "NEXTGEN" \in lib.set THEN lib.set \ {"NO_WRITE"} ELSE lib.set)
          /\ lib'.no_prof = lib.no_prof \cup ({"mpi", "io", "threadsync"} \ preload)
          /\ lib'.domain = lib.domain /\ lib'.pathscale = lib.pathscale /\ lib'.spec = lib.spec /\ lib'.output = lib.output
      BY <1>0, <2>3, AdjustedFacts
    <3>3. Reads(lib', opts')
      BY <2>1, <3>1, <3>2 DEF Decodes, Reads
    <3>4. lib'.set = {x \in Words : Setting(opts', x) /\ ~(x = "NO_WRITE" /\ Setting(opts', "NEXTGEN"))}
      <4>1. "NEXTGEN" \in Words
        BY DEF Words
      <4> QED
        BY <2>1, <3>1, <3>2, <4>1 DEF Decodes
    <3>5. lib'.no_prof = NoProf(opts') \cup ({"mpi", "io", "threadsync"} \ preload')
      BY <2>1, <3>1, <3>2 DEF Decodes
    <3> QED
      BY <2>1, <2>3, <3>3, <3>4, <3>5 DEF LibInv, Late, Early
  <2> QED
    BY <1>7, <2>2, <2>3 DEF monitor_init_library
<1>8. CASE InitRoutines
  BY <1>8 DEF InitRoutines, LibInv, Late, Early, Libraries
<1>9. CASE UNCHANGED vars
  BY <1>9 DEF vars, LibInv, Libraries
<1> QED
  BY <1>1, <1>2, <1>3, <1>4, <1>5, <1>6, <1>7, <1>8, <1>9 DEF Next

-----------------------------------------------------------------------------
(* The events *)

LEMMA RankTaken ==
  ASSUME OptType, NEW a \in Arguments, Take(a)
  PROVE  /\ \A i \in 0 .. Len(given) : Rank(i)' = Rank(i) /\ Rank(i) \in Nat
         /\ Rank(Len(given))' = (IF a.opt = "e" THEN Rank(Len(given)) + 1 ELSE Rank(Len(given)))
<1>1. /\ Len(given) \in Nat /\ Len(given') = Len(given) + 1
      /\ given'[Len(given) + 1] = a /\ \A i \in 1 .. Len(given) : given'[i] = given[i]
  BY Taken
<1> DEFINE E(i) == {j \in 1 .. i : given[j].opt = "e"}
           n == Len(given)
<1>2. \A i \in 0 .. n : {j \in 1 .. i : given'[j].opt = "e"} = E(i)
  BY <1>1
<1>3. \A i \in 0 .. n : IsFiniteSet(E(i)) /\ Cardinality(E(i)) \in Nat
  <2>1. \A i \in 0 .. n : IsFiniteSet(1 .. i)
    BY <1>1, FS_Interval
  <2>2. \A i \in 0 .. n : E(i) \subseteq 1 .. i
    OBVIOUS
  <2> HIDE DEF E
  <2>3. \A i \in 0 .. n : IsFiniteSet(E(i))
    BY <2>1, <2>2, FS_Subset
  <2> QED
    BY <2>3, FS_CardinalityType
<1>4. \A i \in 0 .. n : Rank(i)' = Rank(i) /\ Rank(i) \in Nat
  BY <1>2, <1>3 DEF Rank
<1>5. {j \in 1 .. n + 1 : given'[j].opt = "e"} = (IF a.opt = "e" THEN E(n) \cup {n + 1} ELSE E(n))
  <2>1. 1 .. n + 1 = (1 .. n) \cup {n + 1}
    BY <1>1
  <2>2. \A j \in 1 .. n : given'[j] = given[j]
    BY <1>1
  <2> QED
    BY <1>1, <2>1, <2>2
<1>6. n + 1 \notin E(n) /\ IsFiniteSet(E(n)) /\ Rank(n) = Cardinality(E(n))
  BY <1>1, <1>3 DEF Rank
<1>7. Cardinality(E(n) \cup {n + 1}) = Cardinality(E(n)) + 1
  <2> HIDE DEF E
  <2> QED
    BY <1>6, FS_AddElement
<1>8. Rank(Len(given))' = Cardinality({j \in 1 .. n + 1 : given'[j].opt = "e"})
  BY <1>1 DEF Rank
<1>9. Rank(Len(given))' = (IF a.opt = "e" THEN Rank(n) + 1 ELSE Rank(n))
  BY <1>5, <1>6, <1>7, <1>8
<1> QED
  BY <1>4, <1>9

\* One more argument: the list grows by it, or stays.
LEMMA ListedStep ==
  ASSUME OptType, NEW a \in Arguments, Take(a), ListedInv,
         events' = (IF a.opt = "e" THEN Append(events, a.arg) ELSE events)
  PROVE  ListedInv'
<1>1. /\ Len(given) \in Nat /\ DOMAIN given = 1 .. Len(given) /\ DOMAIN given' = 1 .. Len(given) + 1
      /\ Len(given') = Len(given) + 1 /\ given'[Len(given) + 1] = a /\ \A i \in 1 .. Len(given) : given'[i] = given[i]
  BY Taken
<1> PICK n \in Nat : n = Len(given)
  BY <1>1
<1>2. /\ \A i \in 1 .. n : Rank(i)' = Rank(i)
      /\ Rank(n + 1)' = (IF a.opt = "e" THEN Rank(n) + 1 ELSE Rank(n))
      /\ Rank(Len(given))' = Rank(n + 1)' /\ Rank(Len(given)) = Rank(n)
  <2>1. \A i \in 0 .. n : Rank(i)' = Rank(i)
    BY RankTaken
  <2>2. Rank(Len(given))' = Rank(n + 1)'
    BY <1>1
  <2> QED
    BY <2>1, <2>2, RankTaken
<1>3. events \in Seq(Text) /\ Len(events) \in Nat /\ DOMAIN events = 1 .. Len(events) /\ a.arg \in Text
  BY ArgumentFacts DEF OptType
<1>4. CASE a.opt = "e"
  <2>1. /\ Len(events') = Len(events) + 1 /\ events'[Len(events) + 1] = a.arg
        /\ \A i \in 1 .. Len(events) : events'[i] = events[i]
        /\ DOMAIN events' = 1 .. Len(events) + 1
    BY <1>3, <1>4
  <2>2. (Len(events) = Rank(Len(given)))'
    <3>1. Len(events') = Rank(n + 1)'
      BY <1>2, <1>4, <2>1 DEF ListedInv
    <3> QED
      BY <1>2, <3>1
  <2>3. ASSUME NEW i \in DOMAIN given', given'[i].opt = "e"
        PROVE  Rank(i)' \in 1 .. Len(events') /\ events'[Rank(i)'] = given'[i].arg
    <3>1. CASE i \in 1 .. Len(given)
      BY <1>1, <1>2, <1>3, <2>1, <2>3, <3>1 DEF ListedInv
    <3>2. CASE i = Len(given) + 1
      <4>1. Rank(i)' = Len(events) + 1 /\ given'[i] = a
        BY <1>1, <1>2, <1>4, <3>2 DEF ListedInv
      <4> QED
        BY <1>3, <2>1, <4>1
    <3> QED
      BY <1>1, <3>1, <3>2
  <2>4. ASSUME NEW k \in DOMAIN events'
        PROVE  \E i \in DOMAIN given' : given'[i].opt = "e" /\ given'[i].arg = events'[k]
    <3>1. CASE k \in 1 .. Len(events)
      <4>1. PICK i \in DOMAIN given : given[i].opt = "e" /\ given[i].arg = events[k]
        BY <1>3, <3>1 DEF ListedInv
      <4> QED
        BY <1>1, <2>1, <3>1, <4>1
    <3>2. CASE k = Len(events) + 1
      BY <1>1, <1>4, <2>1, <3>2
    <3> QED
      BY <1>3, <2>1, <3>1, <3>2
  <2> QED
    BY <2>2, <2>3, <2>4 DEF ListedInv
<1>5. CASE a.opt # "e"
  <2>1. (Len(events) = Rank(Len(given)))'
    <3>1. Len(events') = Rank(n + 1)'
      BY <1>2, <1>5 DEF ListedInv
    <3> QED
      BY <1>2, <3>1
  <2>2. ASSUME NEW i \in DOMAIN given', given'[i].opt = "e"
        PROVE  Rank(i)' \in 1 .. Len(events') /\ events'[Rank(i)'] = given'[i].arg
    <3>1. i \in 1 .. Len(given)
      BY <1>1, <1>5, <2>2
    <3> QED
      BY <1>1, <1>2, <1>5, <2>2, <3>1 DEF ListedInv
  <2>3. ASSUME NEW k \in DOMAIN events'
        PROVE  \E i \in DOMAIN given' : given'[i].opt = "e" /\ given'[i].arg = events'[k]
    <3>1. PICK i \in DOMAIN given : given[i].opt = "e" /\ given[i].arg = events[k]
      BY <1>5, <2>3 DEF ListedInv
    <3> QED
      BY <1>1, <1>5, <3>1
  <2> QED
    BY <2>1, <2>2, <2>3 DEF ListedInv
<1> QED
  BY <1>4, <1>5

\* The events that -a adds come after them.
LEMMA ListComplete ==
  ASSUME OptType, ListedInv, UsefulEventsAdded, "auto" \in flags <=> Has("a")
  PROVE  Complete'
<1>1. /\ given' = given /\ events' = events \o Extra
      /\ events \in Seq(Text) /\ Extra \in Seq(Text) /\ Len(events) \in Nat /\ DOMAIN events = 1 .. Len(events)
      /\ Len(Extra) \in Nat /\ DOMAIN Extra = 1 .. Len(Extra)
  <2>1. events \in Seq(Text) /\ Extra \in Seq(Text)
    BY EventsText DEF OptType, Extra
  <2>2. events \o <<>> = events
    BY <2>1
  <2> QED
    BY <2>1, <2>2 DEF UsefulEventsAdded, Extra
<1>2. /\ Len(events') = Len(events) + Len(Extra) /\ DOMAIN events' = 1 .. Len(events) + Len(Extra)
      /\ \A i \in 1 .. Len(events) : events'[i] = events[i]
      /\ \A i \in 1 .. Len(Extra) : events'[Len(events) + i] = Extra[i]
      /\ \A i \in 1 .. Len(events) + Len(Extra) : i \in 1 .. Len(events) \/ \E j \in 1 .. Len(Extra) : i = Len(events) + j
  BY <1>1, Joined
<1>3. /\ \A i : Rank(i)' = Rank(i)
      /\ Extra' = Extra /\ \A e : Requested(e)' <=> Requested(e)
  <2>1. Has("a")' <=> Has("a")
    BY <1>1 DEF Has
  <2>2. Extra' = Extra
    BY <2>1 DEF Extra
  <2> QED
    BY <1>1, <2>2 DEF Rank, Requested
<1>4. AsRequested(events)'
  <2>1. Rank(Len(given))' = Len(events)
    BY <1>1, <1>3 DEF ListedInv
  <2>2. \A i \in DOMAIN given' : given'[i].opt = "e" => events'[Rank(i)'] = given'[i].arg
    BY <1>1, <1>2, <1>3 DEF ListedInv
  <2>3. \A i \in DOMAIN Extra' : events'[Len(events) + i] = Extra'[i]
    BY <1>1, <1>2, <1>3
  <2> QED
    BY <1>2, <1>3, <2>1, <2>2, <2>3 DEF AsRequested
<1>5. ASSUME NEW k \in DOMAIN events' PROVE Requested(events'[k])
  <2>1. CASE k \in 1 .. Len(events)
    BY <1>1, <1>2, <2>1 DEF ListedInv, Requested
  <2>2. CASE k \notin 1 .. Len(events)
    <3>1. PICK j \in 1 .. Len(Extra) : k = Len(events) + j
      BY <1>2, <2>2
    <3> QED
      BY <1>1, <1>2, <3>1 DEF Requested
  <2> QED
    BY <2>1, <2>2
<1>6. ASSUME NEW e, Requested(e) PROVE \E k \in DOMAIN events' : events'[k] = e
  <2>1. CASE \E i \in DOMAIN given : given[i].opt = "e" /\ given[i].arg = e
    <3>1. PICK i \in DOMAIN given : given[i].opt = "e" /\ given[i].arg = e
      BY <2>1
    <3>2. Rank(i) \in 1 .. Len(events) /\ events[Rank(i)] = e
      BY <3>1 DEF ListedInv
    <3>3. Rank(i) \in DOMAIN events'
      BY <1>1, <1>2, <3>2
    <3> QED
      BY <1>2, <3>2, <3>3
  <2>2. CASE \E i \in DOMAIN Extra : Extra[i] = e
    <3>1. PICK i \in 1 .. Len(Extra) : Extra[i] = e
      BY <1>1, <2>2
    <3>2. Len(events) + i \in DOMAIN events'
      BY <1>1, <1>2
    <3> QED
      BY <1>2, <3>1, <3>2
  <2> QED
    BY <1>6, <2>1, <2>2 DEF Requested
<1> QED
  BY <1>3, <1>4, <1>5, <1>6 DEF Complete

LEMMA AddedMore ==
  ASSUME NEW list \in Seq(Text), NEW e \in Text, NEW m \in BOOLEAN
  PROVE  /\ Append(list, e) \in Seq(Text)
         /\ \A x : ~Adds(list, x, m) => ~Adds(Append(list, e), x, m)
         /\ ~Adds(Append(list, e), e, m)
         /\ e \in Known /\ Adds(list, e, m) /\ CanCount(list, m) => CanCount(Append(list, e), m)
<1> DEFINE longer == Append(list, e)
<1>1. /\ longer \in Seq(Text) /\ Len(list) \in Nat /\ Len(longer) = Len(list) + 1
      /\ longer[Len(list) + 1] = e /\ \A i \in 1 .. Len(list) : longer[i] = list[i]
      /\ DOMAIN list = 1 .. Len(list) /\ DOMAIN longer = (1 .. Len(list)) \cup {Len(list) + 1}
  OBVIOUS
<1>2. ASSUME NEW i \in 1 .. Len(list) PROVE SubSeq(longer, 1, i - 1) = SubSeq(list, 1, i - 1)
  BY <1>1
<1>3. SubSeq(longer, 1, Len(list)) = list
  BY <1>1
<1> HIDE DEF longer
<1>4. ASSUME NEW x, ~Adds(list, x, m) PROVE ~Adds(longer, x, m)
  BY <1>1, <1>4 DEF Adds
<1>5. ~Adds(longer, e, m)
  BY <1>1 DEF Adds
<1>6. ASSUME e \in Known, Adds(list, e, m), CanCount(list, m) PROVE CanCount(longer, m)
  <2>1. \A i \in DOMAIN longer : longer[i] \in Known
    BY <1>1, <1>6 DEF CanCount
  <2>2. ASSUME NEW i \in DOMAIN longer PROVE Adds(SubSeq(longer, 1, i - 1), longer[i], m)
    <3>1. CASE i \in 1 .. Len(list)
      BY <1>1, <1>2, <1>6, <3>1 DEF CanCount, AllAdded
    <3>2. CASE i = Len(list) + 1
      <4>1. i - 1 = Len(list) /\ longer[i] = e
        BY <1>1, <3>2
      <4>2. SubSeq(longer, 1, i - 1) = list
        BY <1>3, <4>1
      <4> QED
        BY <1>6, <4>1, <4>2
    <3> QED
      BY <1>1, <3>1, <3>2
  <2> QED
    BY <2>1, <2>2 DEF CanCount, AllAdded
<1> QED
  BY <1>1, <1>4, <1>5, <1>6 DEF longer

LEMMA SameRequest ==
  ASSUME given' = given
  PROVE  /\ \A i : Rank(i)' = Rank(i)
         /\ Extra' = Extra
         /\ \A e : Requested(e)' <=> Requested(e)
         /\ Skipping' <=> Skipping
<1>1. /\ \A o : Has(o)' <=> Has(o)
      /\ \A f : HasFlag(f)' <=> HasFlag(f)
  BY SameOptions
<1>2. Extra' = Extra
  BY <1>1 DEF Extra
<1> QED
  BY <1>1, <1>2 DEF Rank, Requested, Skipping

LEMMA SameEvents ==
  ASSUME given' = given, events' = events, Multiplexed' <=> Multiplexed, "nocheck" \in flags' <=> "nocheck" \in flags
  PROVE  /\ AsRequested(events)' <=> AsRequested(events)
         /\ Complete => Complete'
         /\ Left => Left'
         /\ Tested => Tested'
<1>1. /\ \A i : Rank(i)' = Rank(i)
      /\ Extra' = Extra
      /\ \A e : Requested(e)' <=> Requested(e)
      /\ Skipping' <=> Skipping
      /\ HasFlag("test")' <=> HasFlag("test")
  BY SameRequest, SameOptions
<1>2. AsRequested(events)' <=> AsRequested(events)
  BY <1>1 DEF AsRequested, Rank
<1>3. ASSUME Complete PROVE Complete'
  BY <1>1, <1>2, <1>3 DEF Complete
<1>4. \A e : Adds(events', e, Multiplexed') <=> Adds(events, e, Multiplexed)
  BY DEF Adds
<1>5. AllAdded(events', Multiplexed') <=> AllAdded(events, Multiplexed)
  BY DEF AllAdded, Adds
<1>6. ASSUME Left PROVE Left'
  BY <1>1, <1>2, <1>4, <1>5, <1>6 DEF Left
<1>7. ASSUME Tested PROVE Tested'
  BY <1>5, <1>7 DEF Tested, CanCount
<1> QED
  BY <1>2, <1>3, <1>6, <1>7

LEMMA TestEventsStep ==
  ASSUME OptType, ChoiceInv, LibInv, EventsInv, TestEvents
  PROVE  EventsInv'
<1>1. /\ stage = "events" /\ Complete /\ kept = <<>> /\ at = 0 /\ given' = given /\ events' = events
      /\ kept' = kept /\ at' = at /\ lib' = lib
  BY DEF TestEvents, EventsInv, LibInv
<1>2. /\ FlagsInv /\ (Multiplexed' <=> Multiplexed) /\ ("nocheck" \in flags' <=> "nocheck" \in flags)
  BY <1>1 DEF TestEvents, ChoiceInv, Multiplexed
<1>3. Complete' /\ (AsRequested(events)' <=> AsRequested(events))
  BY <1>1, <1>2, SameEvents
<1>4. CASE stage' = "refused"
  BY <1>4 DEF EventsInv
<1>5. CASE stage' = "tokens" /\ (events = <<>> \/ "nocheck" \in flags \/ AllPass)
  <2>1. Left' /\ Tested'
    <3>1. Tested
      BY <1>5 DEF Tested, AllPass
    <3>2. Left
      BY <1>1 DEF Complete, Left
    <3> QED
      BY <1>1, <1>2, <3>1, <3>2, SameEvents
  <2> QED
    BY <1>5, <2>1 DEF EventsInv
<1>6. CASE stage' = "compatible" /\ "skip" \in flags
  <2>1. KeptInv'
    <3>1. at' <= Len(events') /\ \A j \in 1 .. at' : FALSE
      BY <1>1 DEF OptType
    <3>2. CanCount(kept', Multiplexed')
      BY <1>1 DEF CanCount, AllAdded
    <3>3. \A k \in DOMAIN kept' : FALSE
      BY <1>1
    <3> QED
      BY <3>1, <3>2, <3>3 DEF KeptInv
  <2>2. (Skipping \/ HasFlag("test"))'
    BY <1>1, <1>2, <1>6, SameRequest, SameOptions DEF FlagsInv, Skipping
  <2> QED
    BY <1>3, <1>6, <2>1, <2>2 DEF EventsInv
<1> QED
  BY <1>4, <1>5, <1>6 DEF TestEvents

LEMMA CompatibleStep ==
  ASSUME OptType, EventsInv, make_compatible_eventset
  PROVE  EventsInv'
<1>1. /\ stage = "compatible" /\ Complete /\ KeptInv /\ (Skipping \/ HasFlag("test"))
      /\ given' = given /\ flags' = flags /\ lib' = lib
      /\ (Multiplexed' <=> Multiplexed) /\ Multiplexed \in BOOLEAN
  BY DEF make_compatible_eventset, EventsInv, Multiplexed
<1>2. (Skipping \/ HasFlag("test"))'
  BY <1>1, SameRequest, SameOptions
<1>3. /\ events \in Seq(Text) /\ kept \in Seq(Text) /\ at \in Nat /\ Len(events) \in Nat
      /\ DOMAIN events = 1 .. Len(events)
  BY DEF OptType
<1>4. CASE /\ at < Len(events) /\ at' = at + 1 /\ stage' = "compatible" /\ events' = events
           /\ kept' = (IF Fits(events[at']) THEN Append(kept, events[at']) ELSE kept)
  <2> DEFINE e == events[at']
  <2>1. at' \in 1 .. Len(events) /\ e \in Text /\ 1 .. at' = (1 .. at) \cup {at'}
    BY <1>3, <1>4
  <2> HIDE DEF e
  <2>2. /\ CanCount(kept', Multiplexed)
        /\ \A x : ~Adds(kept, x, Multiplexed) => ~Adds(kept', x, Multiplexed)
        /\ e \in Known => ~Adds(kept', e, Multiplexed)
    <3>1. CASE Fits(e)
      BY <1>1, <1>3, <1>4, <2>1, <3>1, AddedMore DEF Fits, KeptInv, e
    <3>2. CASE ~Fits(e)
      BY <1>1, <1>4, <3>2 DEF Fits, KeptInv, e
    <3> QED
      BY <3>1, <3>2
  <2>3. \A k \in DOMAIN kept' : \E j \in DOMAIN events : events[j] = kept'[k]
    <3>1. CASE Fits(e)
      <4>1. /\ kept' = Append(kept, e)
            /\ \A k \in DOMAIN kept' : kept'[k] = e \/ (k \in DOMAIN kept /\ kept'[k] = kept[k])
        BY <1>3, <1>4, <2>1, <3>1 DEF e
      <4>2. at' \in DOMAIN events /\ events[at'] = e
        BY <1>3, <2>1 DEF e
      <4> QED
        BY <1>1, <4>1, <4>2 DEF KeptInv
    <3>2. CASE ~Fits(e)
      BY <1>1, <1>4, <3>2 DEF KeptInv, e
    <3> QED
      BY <3>1, <3>2
  <2>4. \A j \in 1 .. at' : events[j] \in Known => ~Adds(kept', events[j], Multiplexed)
    BY <1>1, <2>1, <2>2 DEF KeptInv, e
  <2>5. KeptInv'
    <3>1. CanCount(kept', Multiplexed') /\ \A x : Adds(kept', x, Multiplexed') <=> Adds(kept', x, Multiplexed)
      BY <1>1, <2>2 DEF CanCount, AllAdded, Adds
    <3>2. at' <= Len(events')
      BY <1>4, <2>1, <1>3
    <3> QED
      BY <1>4, <2>3, <2>4, <3>1, <3>2 DEF KeptInv
  <2>6. Complete'
    BY <1>1, <1>4, SameEvents
  <2> QED
    BY <1>2, <1>4, <2>5, <2>6 DEF EventsInv
<1>5. CASE at = Len(events) /\ events' = kept /\ stage' = "tokens"
  <2>1. /\ \A x : Requested(x)' <=> Requested(x)
    BY <1>1, SameRequest
  <2>2. CanCount(kept, Multiplexed') /\ \A x : Adds(kept, x, Multiplexed') <=> Adds(kept, x, Multiplexed)
    BY <1>1 DEF CanCount, AllAdded, Adds, KeptInv
  <2>3. \A k \in DOMAIN kept : Requested(kept[k])
    BY <1>1 DEF KeptInv, Complete
  <2>4. ASSUME NEW e \in Countable, Requested(e), Adds(kept, e, Multiplexed) PROVE FALSE
    <3>1. PICK k \in DOMAIN events : events[k] = e
      BY <1>1, <2>4 DEF Complete
    <3>2. e \in Known
      BY OptionsAssumption
    <3> QED
      BY <1>1, <1>3, <1>5, <2>4, <3>1, <3>2 DEF KeptInv
  <2>5. Left'
    BY <1>2, <1>5, <2>1, <2>2, <2>3, <2>4 DEF Left, CanCount
  <2>6. Tested'
    BY <1>5, <2>2 DEF Tested
  <2> QED
    BY <1>5, <2>5, <2>6 DEF EventsInv
<1> QED
  BY <1>4, <1>5 DEF make_compatible_eventset

LEMMA AppendTokensEvents ==
  ASSUME OptType, ChoiceInv, EventsInv, AppendTokens
  PROVE  EventsInv'
<1>1. /\ stage = "tokens" /\ stage' \in {"launch", "refused"} /\ given' = given /\ flags' = flags /\ events' = events /\ kept' = kept
      /\ Left /\ Tested
  BY DEF AppendTokens, EventsInv
<1>2. Left' /\ Tested'
  BY <1>1, SameEvents DEF Multiplexed
<1>3. ~In(opts, "EVENT")
  BY <1>1 DEF ChoiceInv, TokensInv, Early
<1>4. /\ opts \in Seq(TokenType) /\ LongTokens \in Seq(TokenType) /\ Len(opts) \in Nat
      /\ EventTokens \in Seq(TokenType) /\ Len(EventTokens) = Len(events) /\ Len(events) \in Nat
      /\ \A i \in 1 .. Len(events) : EventTokens[i].word = "EVENT" /\ EventTokens[i].arg = events[i]
      /\ DOMAIN events = 1 .. Len(events)
  BY EventTokenFacts, LongTokenFacts DEF OptType
<1>5. ~In(LongTokens, "EVENT")
  BY LongTokenFacts DEF LongWord
<1> PICK m \in Nat : m = Len(opts)
  BY <1>4
<1> DEFINE n == Len(events)
           l == opts \o EventTokens
<1>6. /\ l \in Seq(TokenType) /\ Len(l) = m + n
      /\ \A i \in 1 .. m : l[i].word # "EVENT"
      /\ \A i \in 1 .. n : l[m + i].word = "EVENT" /\ l[m + i].arg = events[i]
  <2>0. PICK s, t \in Seq(TokenType) : s = opts /\ t = EventTokens
    BY <1>4
  <2>1. /\ l \in Seq(TokenType) /\ Len(l) = m + n
        /\ \A i \in 1 .. m : l[i] = opts[i]
        /\ \A i \in 1 .. n : l[m + i] = EventTokens[i]
    <3>0. l \in Seq(TokenType)
      BY AppendTokensFacts DEF l
    <3>1. /\ Len(s \o t) = Len(s) + Len(t) /\ Len(t) \in Nat
          /\ \A i \in 1 .. Len(s) : (s \o t)[i] = s[i]
          /\ \A i \in 1 .. Len(t) : (s \o t)[Len(s) + i] = t[i]
      BY Joined
    <3> QED
      BY <1>4, <2>0, <3>0, <3>1
  <2>2. \A i \in 1 .. m : opts[i].word # "EVENT"
    BY <1>3 DEF In
  <2> HIDE DEF l
  <2> QED
    BY <1>4, <2>1, <2>2
<1> HIDE DEF l
<1>7. opts' = l \o LongTokens
  BY AppendTokensFacts DEF l
<1>8. /\ Len(opts') = m + n + Len(LongTokens) /\ Len(LongTokens) \in Nat
      /\ \A i \in 1 .. m + n : opts'[i] = l[i]
      /\ \A i \in 1 .. Len(LongTokens) : opts'[m + n + i].word # "EVENT"
  <2>1. /\ Len(l \o LongTokens) = Len(l) + Len(LongTokens) /\ Len(LongTokens) \in Nat
        /\ \A i \in 1 .. Len(l) : (l \o LongTokens)[i] = l[i]
        /\ \A i \in 1 .. Len(LongTokens) : (l \o LongTokens)[Len(l) + i] = LongTokens[i]
    <3>1. PICK s, t \in Seq(TokenType) : s = l /\ t = LongTokens
      BY <1>4, <1>6
    <3>2. /\ Len(s \o t) = Len(s) + Len(t) /\ Len(t) \in Nat
          /\ \A i \in 1 .. Len(s) : (s \o t)[i] = s[i]
          /\ \A i \in 1 .. Len(t) : (s \o t)[Len(s) + i] = t[i]
      BY Joined
    <3> QED
      BY <3>1, <3>2
  <2>2. \A i \in 1 .. Len(LongTokens) : LongTokens[i].word # "EVENT"
    BY <1>5 DEF In
  <2> QED
    BY <1>6, <1>7, <2>1, <2>2
<1>9. ASSUME NEW i \in 1 .. Len(opts') PROVE opts'[i].word = "EVENT" <=> m < i /\ i <= m + n
  <2>1. CASE i \in 1 .. m
    BY <1>4, <1>6, <1>8, <2>1
  <2>2. CASE m < i /\ i <= m + n
    <3>1. i - m \in 1 .. n /\ m + (i - m) = i /\ i \in 1 .. m + n
      BY <1>4, <2>2
    <3>2. l[m + (i - m)].word = "EVENT"
      BY <1>6, <3>1
    <3> QED
      BY <1>8, <2>2, <3>1, <3>2
  <2>3. CASE i > m + n
    <3>1. i - (m + n) \in 1 .. Len(LongTokens) /\ m + n + (i - (m + n)) = i
      BY <1>4, <1>8, <2>3
    <3>2. opts'[m + n + (i - (m + n))].word # "EVENT"
      BY <1>8, <3>1
    <3> QED
      BY <1>4, <2>3, <3>1, <3>2
  <2> QED
    BY <1>4, <2>1, <2>2, <2>3
<1>10. ASSUME NEW k \in 1 .. n PROVE opts'[m + k].arg = events[k]
  <2>1. m + k \in 1 .. m + n
    BY <1>4
  <2> QED
    BY <1>6, <1>8, <2>1
<1>11. m + n <= Len(opts') /\ m \in 0 .. Len(opts')
  <2>1. Len(LongTokens) \in Nat /\ n \in Nat /\ Len(opts') = m + n + Len(LongTokens)
    BY <1>4, <1>8
  <2> HIDE DEF n
  <2> QED
    BY <2>1
<1>12. Block(m)'
  BY <1>1, <1>4, <1>9, <1>10, <1>11 DEF Block
<1> QED
  BY <1>1, <1>2, <1>11, <1>12 DEF EventsInv

\* A round of the library's loop reads the event that follows those it has.
LEMMA RoundPasses ==
  ASSUME OptType, NEW m \in 0 .. Len(opts), Block(m), lib.events = Passed(m),
         at < Len(opts), at' = at + 1, lib' = Decode(lib, opts[at']), events' = events
  PROVE  lib'.events = Passed(m)'
<1> DEFINE t == opts[at']
           n == Len(events)
<1>1. /\ at \in Nat /\ at' \in 1 .. Len(opts) /\ t \in TokenType /\ m \in Nat /\ n \in Nat
      /\ events \in Seq(Text) /\ DOMAIN events = 1 .. n /\ lib \in LibType
  BY DEF OptType
<1>2. lib'.events = (IF t.word = "EVENT" THEN Append(lib.events, t.arg) ELSE lib.events)
  BY <1>1, Decoded
<1>3. t.word = "EVENT" <=> m < at' /\ at' <= m + n
  BY <1>1 DEF Block
<1>4. /\ SubSeq(events, 1, 0) = <<>> /\ SubSeq(events, 1, n) = events
      /\ \A k \in 0 .. n - 1 : SubSeq(events, 1, k + 1) = Append(SubSeq(events, 1, k), events[k + 1])
  BY <1>1, Prefixes
<1>5. Passed(m)' = IF at' <= m THEN <<>> ELSE IF at' <= m + n THEN SubSeq(events, 1, at' - m) ELSE events
  BY DEF Passed
<1>6. CASE at' <= m
  BY <1>1, <1>2, <1>3, <1>5, <1>6 DEF Passed
<1>7. CASE m < at' /\ at' <= m + n
  <2>1. at - m \in 0 .. n - 1 /\ at' - m = (at - m) + 1 /\ at' = m + ((at - m) + 1) /\ (at - m) + 1 \in 1 .. n
    BY <1>1, <1>7
  <2>2. t.arg = events[(at - m) + 1]
    BY <1>1, <2>1 DEF Block
  <2>3. Passed(m) = SubSeq(events, 1, at - m)
    <3>1. CASE at <= m
      <4>1. at - m = 0
        BY <1>1, <2>1, <3>1
      <4> QED
        BY <1>4, <3>1, <4>1 DEF Passed
    <3>2. CASE ~(at <= m)
      BY <1>1, <1>7, <3>2 DEF Passed
    <3> QED
      BY <3>1, <3>2
  <2>4. SubSeq(events, 1, (at - m) + 1) = Append(SubSeq(events, 1, at - m), events[(at - m) + 1])
    BY <1>4, <2>1
  <2>5. Passed(m)' = SubSeq(events, 1, (at - m) + 1)
    BY <1>1, <1>5, <1>7, <2>1
  <2> QED
    BY <1>2, <1>3, <1>7, <2>2, <2>3, <2>4, <2>5
<1>8. CASE at' > m + n
  <2>1. Passed(m) = events
    <3>1. CASE at <= m
      <4>1. n = 0
        BY <1>1, <1>8, <3>1
      <4>2. events = <<>>
        BY <1>1, <4>1, EmptySeq
      <4> QED
        BY <3>1, <4>2 DEF Passed
    <3>2. CASE ~(at <= m) /\ at <= m + n
      <4>1. at - m = n
        BY <1>1, <1>8, <3>2
      <4> QED
        BY <1>4, <3>2, <4>1 DEF Passed
    <3>3. CASE at > m + n
      BY <1>1, <3>3 DEF Passed
    <3> QED
      BY <1>1, <3>1, <3>2, <3>3
  <2>2. Passed(m)' = events
    BY <1>1, <1>5, <1>8
  <2>3. t.word # "EVENT"
    <3>1. ~(at' <= m + n)
      BY <1>1, <1>8
    <3> QED
      BY <1>3, <3>1
  <2>4. lib'.events = lib.events
    BY <1>2, <2>3
  <2> QED
    BY <2>1, <2>2, <2>4
<1> QED
  BY <1>1, <1>6, <1>7, <1>8

\* At the end it has them all.
LEMMA AllPassed ==
  ASSUME OptType, NEW m \in 0 .. Len(opts), Block(m), at = Len(opts)
  PROVE  Passed(m) = events
<1> DEFINE n == Len(events)
<1>1. /\ at \in Nat /\ m \in Nat /\ n \in Nat /\ events \in Seq(Text) /\ m <= at /\ m + n <= at
  BY DEF OptType, Block
<1>2. CASE at <= m
  <2>1. n = 0
    BY <1>1, <1>2
  <2>2. events = <<>>
    BY <1>1, <2>1, EmptySeq
  <2> QED
    BY <1>2, <2>2 DEF Passed
<1>3. CASE ~(at <= m) /\ at <= m + n
  <2>1. at - m = n
    BY <1>1, <1>3
  <2> QED
    BY <1>1, <1>3, <2>1, Prefixes DEF Passed
<1>4. CASE at > m + n
  BY <1>1, <1>4 DEF Passed
<1> QED
  BY <1>1, <1>2, <1>3, <1>4

LEMMA LibraryEvents ==
  ASSUME OptType, EventsInv, monitor_init_library
  PROVE  EventsInv'
<1>1. /\ stage = "library" /\ given' = given /\ flags' = flags /\ events' = events /\ kept' = kept /\ opts' = opts
      /\ Left /\ Tested /\ "test" \notin flags
  BY DEF monitor_init_library, EventsInv
<1>2. Left' /\ Tested'
  BY <1>1, SameEvents DEF Multiplexed
<1>3. PICK m \in 0 .. Len(opts) : Block(m) /\ lib.events = Passed(m)
  BY <1>1 DEF EventsInv
<1>4. Block(m)'
  BY <1>1, <1>3 DEF Block
<1>5. CASE at < Len(opts) /\ at' = at + 1 /\ lib' = Decode(lib, opts[at']) /\ stage' \in {"library", "refused"}
  <2>1. lib'.events = Passed(m)'
    BY <1>1, <1>3, <1>5, RoundPasses
  <2>2. m \in 0 .. Len(opts')
    BY <1>1, <1>3
  <2> QED
    BY <1>1, <1>2, <1>4, <1>5, <2>1, <2>2 DEF EventsInv
<1>6. CASE at = Len(opts) /\ lib' = LookUp(Adjusted(lib)) /\ stage' = "process"
  <2>1. lib.events = events
    BY <1>3, <1>6, AllPassed
  <2>2. lib'.events = lib.events
    BY <1>6, AdjustedFacts DEF OptType
  <2> QED
    BY <1>1, <1>2, <1>6, <2>1, <2>2 DEF EventsInv
<1> QED
  BY <1>5, <1>6 DEF monitor_init_library

LEMMA LaunchEvents ==
  ASSUME OptType, LibInv, EventsInv, Launch
  PROVE  EventsInv'
<1>1. /\ stage = "launch" /\ given' = given /\ flags' = flags /\ events' = events /\ opts' = opts /\ at' = at /\ lib' = lib
      /\ stage' \in {"refused", "printed", "library"} /\ (stage' = "library" => "test" \notin flags)
      /\ Left /\ Tested
  BY DEF Launch, EventsInv
<1>2. at' = 0 /\ lib'.events = <<>>
  BY <1>1 DEF LibInv, Defaults
<1>3. Left' /\ Tested'
  BY <1>1, SameEvents DEF Multiplexed
<1>4. PICK m \in 0 .. Len(opts) : Block(m)
  BY <1>1 DEF EventsInv
<1>5. Block(m)' /\ m \in 0 .. Len(opts')
  BY <1>1, <1>4 DEF Block
<1>6. lib'.events = Passed(m)'
  BY <1>2 DEF Passed
<1> QED
  BY <1>1, <1>3, <1>5, <1>6 DEF EventsInv

LEMMA OptionEvents ==
  ASSUME OptType, EventsInv, NEW a \in Arguments, Option(a)
  PROVE  EventsInv'
<1>1. /\ stage = "args" /\ Take(a) /\ kept' = kept /\ stage' \in {"args", "refused", "printed"}
      /\ events' = (IF a.opt = "e" THEN Append(events, a.arg) ELSE events)
  BY OtherWords DEF Option, TokenOption, MultiplexOption, AutoOption, EventOption, SpecOption, do_G_option, do_Q_option,
     FlagOption, PrintOption, Take, Refuse
<1>2. ListedInv'
  BY <1>1, ListedStep DEF EventsInv
<1> QED
  BY <1>1, <1>2 DEF EventsInv

LEMMA EventsInit == Init => EventsInv
<1> SUFFICES ASSUME Init PROVE EventsInv
  OBVIOUS
<1>1. given = <<>> /\ events = <<>> /\ kept = <<>> /\ stage = "args"
  BY DEF Init
<1>2. Rank(Len(given)) = 0
  <2>1. {j \in 1 .. Len(given) : given[j].opt = "e"} = {}
    BY <1>1
  <2> QED
    BY <2>1, FS_EmptySet DEF Rank
<1> QED
  BY <1>1, <1>2 DEF EventsInv, ListedInv

LEMMA EventsStep ==
  ASSUME OptType, ChoiceInv, LibInv, EventsInv, [Next]_vars
  PROVE  EventsInv'
<1>1. ASSUME NEW a \in Arguments, Option(a) PROVE EventsInv'
  BY <1>1, OptionEvents
<1>2. CASE UsefulEventsAdded
  <2>1. stage = "args" /\ stage' = "events" /\ kept' = kept /\ ("auto" \in flags <=> Has("a"))
    BY <1>2 DEF UsefulEventsAdded, ChoiceInv, FlagsInv
  <2>2. Complete'
    BY <1>2, <2>1, ListComplete DEF EventsInv
  <2> QED
    BY <2>1, <2>2 DEF EventsInv
<1>3. CASE TestEvents
  BY <1>3, TestEventsStep
<1>4. CASE make_compatible_eventset
  BY <1>4, CompatibleStep
<1>5. CASE AppendTokens
  BY <1>5, AppendTokensEvents
<1>6. CASE Launch
  BY <1>6, LaunchEvents
<1>7. CASE monitor_init_library
  BY <1>7, LibraryEvents
<1>8. CASE InitRoutines
  BY <1>8 DEF InitRoutines, EventsInv
<1>9. CASE UNCHANGED vars
  <2>1. /\ stage' = stage /\ given' = given /\ opts' = opts /\ flags' = flags /\ events' = events /\ at' = at /\ kept' = kept /\ lib' = lib
    BY <1>9 DEF vars
  <2>2. /\ Complete => Complete'
        /\ Left => Left'
        /\ Tested => Tested'
    BY <2>1, SameEvents DEF Multiplexed
  <2>3. (Skipping' <=> Skipping) /\ (HasFlag("test")' <=> HasFlag("test")) /\ \A i : Rank(i)' = Rank(i)
    BY <2>1, SameRequest, SameOptions
  <2>4. ListedInv => ListedInv'
    BY <2>1, <2>3 DEF ListedInv, Rank
  <2>5. KeptInv => KeptInv'
    BY <2>1 DEF KeptInv, Multiplexed, CanCount, AllAdded, Adds
  <2>6. \A m : (Block(m) => Block(m)') /\ Passed(m)' = Passed(m)
    BY <2>1 DEF Block, Passed
  <2> QED
    BY <2>1, <2>2, <2>3, <2>4, <2>5, <2>6 DEF EventsInv
<1> QED
  BY <1>1, <1>2, <1>3, <1>4, <1>5, <1>6, <1>7, <1>8, <1>9 DEF Next

-----------------------------------------------------------------------------
(* The events that arrive *)

OptionsInv == OptType /\ ChoiceInv /\ LibInv /\ EventsInv

LEMMA OptionsInvariant == Spec => []OptionsInv
<1>1. Init => OptionsInv
  <2> SUFFICES ASSUME Init PROVE LibInv
    BY TypesInit, ChoiceInit, EventsInit DEF OptionsInv
  <2> QED
    BY DEF Init, LibInv, Early, Late
<1>2. OptionsInv /\ [Next]_vars => OptionsInv'
  BY TypesKept, ChoiceStep, LibStep, EventsStep DEF OptionsInv
<1> QED
  BY <1>1, <1>2, PTL DEF Spec

\* The library is given all events that were asked for; only where skipping is allowed
\* some are missing, and then none that could have been counted together with the ones
\* that are there (test_papi_events, make_compatible_eventset, main.c:1056-1249).
THEOREM EventsArrive == Spec => []EventsKept
<1>1. ASSUME OptionsInv PROVE EventsKept
  <2> SUFFICES ASSUME stage = "process" PROVE EventsKept
    BY DEF EventsKept
  <2>1. lib.events = events /\ Left /\ "test" \notin flags
    BY <1>1 DEF OptionsInv, EventsInv
  <2>2. ~HasFlag("test")
    BY <1>1, <2>1 DEF OptionsInv, ChoiceInv, FlagsInv, LongFlags
  <2> QED
    BY <2>1, <2>2 DEF EventsKept, Left, Skipping
<1> QED
  BY <1>1, OptionsInvariant, PTL

\* Events that passed the launcher's test do not stop the program when the library adds
\* them to its own event set, with its own idea of multiplexing (main.c:1056-1159,
\* papiex.c:2225-2237 and 2105-2117); only the library's own choice of events and the
\* domain that it sets (papiex.c:2279-2284) are not tested.
THEOREM TestedEventsRun == Spec => []CheckedEventsRun
<1>1. Init => CheckedEventsRun
  BY DEF Init, CheckedEventsRun
<1>2. ASSUME OptionsInv, CheckedEventsRun, [Next]_vars PROVE CheckedEventsRun'
  <2>1. CASE stage' # "failed"
    BY <2>1 DEF CheckedEventsRun
  <2>2. CASE stage' = "failed" /\ ~InitRoutines
    <3>1. stage = "failed" /\ UNCHANGED vars
      BY <1>2, <2>2 DEF Next, Option, TokenOption, MultiplexOption, AutoOption, EventOption, SpecOption, do_G_option,
         do_Q_option, FlagOption, PrintOption, Take, Refuse, UsefulEventsAdded, TestEvents, make_compatible_eventset,
         AppendTokens, Launch, monitor_init_library, vars
    <3> QED
      BY <1>2, <3>1, SameOptions DEF vars, CheckedEventsRun, CanCount, AllAdded, Adds
  <2>3. CASE stage' = "failed" /\ InitRoutines
    <3>1. /\ stage = "process" /\ given' = given /\ flags' = flags /\ events' = events /\ opts' = opts
          /\ ~CanCount(Counted(lib), "MULTIPLEX" \in lib.set) \/ ChosenDomain(lib) \cap Unsupported # {}
      BY <2>3 DEF InitRoutines
    <3>2. /\ lib.events = events /\ Tested /\ FlagsInv /\ TokensInv /\ lib \in LibType
          /\ lib.set = {x \in Words : Setting(opts, x) /\ ~(x = "NO_WRITE" /\ Setting(opts, "NEXTGEN"))}
      BY <1>2, <3>1 DEF OptionsInv, EventsInv, ChoiceInv, LibInv, OptType
    <3>3. "MULTIPLEX" \in lib.set <=> Multiplexed
      <4>1. "MULTIPLEX" \in lib.set <=> In(opts, "MULTIPLEX")
        BY <3>2 DEF Setting, Words, Domains, Outputs, Unset
      <4> QED
        BY <3>2, <4>1 DEF FlagsInv, TokensInv, Multiplexed
    <3>4. lib'.set = lib.set /\ lib'.domain = ChosenDomain(lib)
      BY <2>3, <3>2, CountedFacts DEF ChosenDomain
    <3>8. CASE ChosenDomain(lib) \cap Unsupported # {}
      BY <3>4, <3>8 DEF CheckedEventsRun
    <3>5. CASE events = <<>> /\ ~(ChosenDomain(lib) \cap Unsupported # {})
      BY <3>1, <3>2, <3>4, <3>5 DEF Counted, CheckedEventsRun, CanCount, AllAdded, Adds
    <3>6. CASE events # <<>> /\ "nocheck" \in flags
      <4>1. HasFlag("nocheck")'
        BY <3>1, <3>2, <3>6, SameOptions DEF FlagsInv, LongFlags
      <4> QED
        BY <4>1 DEF CheckedEventsRun
    <3>7. CASE events # <<>> /\ CanCount(events, Multiplexed) /\ ~(ChosenDomain(lib) \cap Unsupported # {})
      <4>1. Counted(lib) = events /\ Multiplexed = ("MULTIPLEX" \in lib.set)
        BY <3>2, <3>3, <3>7 DEF Counted, Multiplexed
      <4> QED
        BY <3>1, <3>7, <4>1
    <3> QED
      BY <3>2, <3>5, <3>6, <3>7, <3>8 DEF Tested
  <2> QED
    BY <2>1, <2>2, <2>3
<1> QED
  BY <1>1, <1>2, OptionsInvariant, PTL DEF Spec

-----------------------------------------------------------------------------
(* The settings that arrive *)

LEMMA GivenOrNot == \A x : Has(x) \in BOOLEAN /\ HasFlag(x) \in BOOLEAN
BY DEF Has, HasFlag

LEMMA SettingsArrive ==
  ASSUME OptionsInv, stage = "process", NEW setting \in Settings
  PROVE  (setting \in lib.set) = Asks(setting)
<1>1. /\ FlagsInv /\ TokensInv
      /\ lib.set = {x \in Words : Setting(opts, x) /\ ~(x = "NO_WRITE" /\ Setting(opts, "NEXTGEN"))}
  BY DEF OptionsInv, ChoiceInv, LibInv
<1>2. \A w \in LongWords : In(opts, w) <=> LongWord(w)
  BY <1>1 DEF TokensInv, Early
<1>3. \A x \in Settings : Setting(opts, x) <=> In(opts, x) \/ (x = "NEXTGEN" /\ In(opts, "CSV"))
  BY DEF Settings, Setting, Domains, Outputs, Unset
<1>4. Settings \subseteq Words /\ "NEXTGEN" \in Settings
  BY DEF Settings, Words
<1>5. Setting(opts, "NEXTGEN") <=> ~HasFlag("classic") \/ HasFlag("csv")
  <2>1. In(opts, "NEXTGEN") <=> "classic" \notin flags
    BY <1>2 DEF LongWords, LongWord
  <2>2. In(opts, "CSV") <=> "csv" \in flags
    BY <1>2 DEF LongWords, LongWord
  <2>3. ("classic" \in flags <=> HasFlag("classic")) /\ ("csv" \in flags <=> HasFlag("csv"))
    BY <1>1 DEF FlagsInv, LongFlags
  <2> QED
    BY <1>3, <1>4, <2>1, <2>2, <2>3
<1>6. setting \in lib.set <=> Setting(opts, setting) /\ ~(setting = "NO_WRITE" /\ Setting(opts, "NEXTGEN"))
  BY <1>1, <1>4
<1>7. \A o \in DOMAIN Word \ {"x"} : In(opts, Word[o]) <=> Has(o)
  BY <1>1 DEF TokensInv
<1> USE GivenOrNot
<1>0. Setting(opts, setting) <=> In(opts, setting) \/ (setting = "NEXTGEN" /\ In(opts, "CSV"))
  BY <1>3
<1>8. CASE setting = "MULTIPLEX"
  BY <1>1, <1>0, <1>6, <1>8 DEF Asks, TokensInv
<1>9. CASE setting = "MEMORY"
  BY <1>1, <1>0, <1>6, <1>9 DEF Asks, TokensInv
<1>10. CASE setting = "RUSAGE"
  <2>1. In(opts, "RUSAGE") <=> Has("r")
    BY <1>7 DEF Word
  <2> QED
    BY <2>1, <1>0, <1>6, <1>10 DEF Asks
<1>11. CASE setting = "WRITE_ONLY"
  <2>1. In(opts, "WRITE_ONLY") <=> Has("w")
    BY <1>7 DEF Word
  <2> QED
    BY <2>1, <1>0, <1>6, <1>11 DEF Asks
<1>12. CASE setting = "GCC_PROF"
  BY <1>1, <1>0, <1>6, <1>12 DEF Asks, TokensInv
<1>13. CASE setting = "NO_WRITE"
  <2>1. In(opts, "NO_WRITE") <=> Has("n")
    BY <1>7 DEF Word
  <2> QED
    BY <2>1, <1>0, <1>5, <1>6, <1>13 DEF Asks
<1>14. CASE setting = "NEXTGEN"
  BY <1>5, <1>6, <1>14 DEF Asks
<1>15. CASE setting = "CSV"
  <2>1. In(opts, "CSV") <=> "csv" \in flags
    BY <1>2 DEF LongWords, LongWord
  <2>2. "csv" \in flags <=> HasFlag("csv")
    BY <1>1 DEF FlagsInv, LongFlags
  <2> QED
    BY <2>1, <2>2, <1>0, <1>6, <1>15 DEF Asks
<1>16. CASE setting = "NO_MPI_GATHER"
  <2>1. In(opts, "NO_MPI_GATHER") <=> "no_mpi_gather" \in flags
    BY <1>2 DEF LongWords, LongWord
  <2>2. "no_mpi_gather" \in flags <=> HasFlag("no_mpi_gather")
    BY <1>1 DEF FlagsInv, LongFlags
  <2> QED
    BY <2>1, <2>2, <1>0, <1>6, <1>16 DEF Asks
<1> QED
  BY <1>8, <1>9, <1>10, <1>11, <1>12, <1>13, <1>14, <1>15, <1>16 DEF Settings

\* The settings that a token carries as its argument, and those of which one is left.
LEMMA ValuesArrive ==
  ASSUME OptionsInv, stage = "process"
  PROVE  /\ lib.domain = {Word[o] : o \in {q \in {"U", "K", "I", "S"} : Has(q)}}
         /\ lib.pathscale = pathscale
         /\ lib.pathscale = (IF LastArg("Q", "none") = "" THEN "all" ELSE LastArg("Q", "none"))
         /\ LastArg("E", "default") = (IF lib.spec = "none" THEN "default" ELSE lib.spec)
         /\ lib.output = (IF Has("p") THEN "prefix" ELSE IF Has("f") THEN "dir" ELSE IF Has("o") THEN "file" ELSE "none")
<1>1. FlagsInv /\ TokensInv /\ ModeInv /\ CompatInv /\ Reads(lib, opts) /\ opts \in Seq(TokenType) /\ OptType
  BY DEF OptionsInv, ChoiceInv, LibInv, OptType
<1>2. \A o \in DOMAIN Word \ {"x"} : In(opts, Word[o]) <=> Has(o)
  BY <1>1 DEF TokensInv
<1>3. lib.domain = {Word[o] : o \in {q \in {"U", "K", "I", "S"} : Has(q)}}
  <2>1. /\ In(opts, "USER") <=> Has("U")
        /\ In(opts, "KERNEL") <=> Has("K")
        /\ In(opts, "OTHER") <=> Has("I")
        /\ In(opts, "SUPERVISOR") <=> Has("S")
    BY <1>2 DEF Word
  <2>2. Word["U"] = "USER" /\ Word["K"] = "KERNEL" /\ Word["I"] = "OTHER" /\ Word["S"] = "SUPERVISOR"
    BY DEF Word
  <2>3. lib.domain = {w \in {"USER", "KERNEL", "OTHER", "SUPERVISOR"} : In(opts, w)}
    BY <1>1 DEF Reads, Domains
  <2> QED
    BY <2>1, <2>2, <2>3
<1>4. lib.pathscale = pathscale
  BY <1>1, LastUnique DEF Reads, TokensInv
<1>5. lib.pathscale = (IF LastArg("Q", "none") = "" THEN "all" ELSE LastArg("Q", "none"))
  <2>1. CASE pathscale = "none" /\ ~Has("Q")
    BY <1>4, <2>1 DEF LastArg
  <2>2. CASE \E v \in Profiles : Has("Q") /\ LastGiven("Q", v) /\ pathscale = (IF v = "" THEN "all" ELSE v)
    <3>1. PICK v \in Profiles : LastGiven("Q", v) /\ pathscale = (IF v = "" THEN "all" ELSE v)
      BY <2>2
    <3>2. LastArg("Q", "none") = v
      BY <1>1, <3>1, LastArgIs
    <3> QED
      BY <1>4, <3>1, <3>2
  <2> QED
    BY <1>1, <2>1, <2>2 DEF ModeInv
<1>6. LastArg("E", "default") = (IF lib.spec = "none" THEN "default" ELSE lib.spec)
  <2>1. PICK v : LastGiven("E", v) /\ Last(opts, "SPEC", v)
    BY <1>1 DEF TokensInv
  <2>2. lib.spec = v /\ LastArg("E", "none") = v
    BY <1>1, <2>1, LastUnique, LastArgIs DEF Reads
  <2>3. CASE ~Has("E")
    BY <2>2, <2>3 DEF LastArg
  <2>4. CASE Has("E")
    <3>1. PICK i \in DOMAIN given : given[i].opt = "E" /\ given[i].arg = v
      BY <2>1, <2>4 DEF LastGiven
    <3>2. given[i] \in Arguments
      BY <1>1, <3>1 DEF OptType
    <3>3. v # "none"
      BY <3>1, <3>2, OptionsAssumption
    <3> QED
      BY <2>2, <2>4, <3>3 DEF LastArg
  <2> QED
    BY <2>3, <2>4
<1>7. lib.output = (IF Has("p") THEN "prefix" ELSE IF Has("f") THEN "dir" ELSE IF Has("o") THEN "file" ELSE "none")
  <2>1. /\ In(opts, "PREFIX") <=> Has("p")
        /\ In(opts, "DIR") <=> Has("f")
        /\ In(opts, "FILE") <=> Has("o")
    BY <1>2 DEF Word
  <2>2. ~(Has("p") /\ Has("f")) /\ ~(Has("p") /\ Has("o")) /\ ~(Has("f") /\ Has("o"))
    <3>1. {"f", "p"} \in Exclusive /\ {"p", "o"} \in Exclusive /\ {"f", "o"} \in Exclusive
      BY DEF Exclusive
    <3> QED
      BY <1>1, <3>1 DEF CompatInv
  <2>3. DOMAIN Outputs = {"PREFIX", "DIR", "FILE"} /\ Outputs["PREFIX"] = "prefix" /\ Outputs["DIR"] = "dir" /\ Outputs["FILE"] = "file"
    BY DEF Outputs
  <2>4. CASE lib.output = "none" /\ \A w \in DOMAIN Outputs : ~In(opts, w)
    BY <2>1, <2>3, <2>4
  <2>5. CASE \E w \in DOMAIN Outputs : In(opts, w) /\ lib.output = Outputs[w]
    BY <2>1, <2>2, <2>3, <2>5
  <2> QED
    BY <1>1, <2>4, <2>5 DEF Reads
<1> QED
  BY <1>3, <1>4, <1>5, <1>6, <1>7

LEMMA GatesArrive ==
  ASSUME OptionsInv, stage = "process"
  PROVE  Gates(lib) = {w \in {"mpi", "io"} : ~HasFlag(Leaving[w])}
                        \cup {w \in {"gcc"} : Has("G")} \cup {w \in {"pathscale"} : Has("Q")}
<1>1. /\ FlagsInv /\ TokensInv /\ ModeInv /\ OptType /\ preload = Libraries
      /\ lib.no_prof = NoProf(opts) \cup ({"mpi", "io", "threadsync"} \ preload)
  BY DEF OptionsInv, ChoiceInv, LibInv, Late
<1>2. /\ In(opts, "NO_MPI_PROF") <=> "no_mpi_prof" \in flags
      /\ In(opts, "NO_IO_PROF") <=> "no_io_prof" \in flags
  BY <1>1 DEF TokensInv, Early, LongWords, LongWord
<1>3. /\ "no_mpi_prof" \in flags <=> HasFlag("no_mpi_prof")
      /\ "no_io_prof" \in flags <=> HasFlag("no_io_prof")
  BY <1>1 DEF FlagsInv, LongFlags
<1>4. /\ "mpi" \in preload <=> "no_mpi_prof" \notin flags
      /\ "io" \in preload <=> "no_io_prof" \notin flags
      /\ "gcc" \in preload <=> "gcc" \in flags
      /\ "pathscale" \in preload <=> pathscale # "none"
  BY <1>1 DEF Libraries, Leaving
<1>5. /\ "mpi" \in NoProf(opts) <=> In(opts, "NO_MPI_PROF")
      /\ "io" \in NoProf(opts) <=> In(opts, "NO_IO_PROF")
      /\ "threadsync" \in NoProf(opts)
  BY DEF NoProf, Unset
<1>6. /\ "mpi" \in lib.no_prof <=> HasFlag("no_mpi_prof")
      /\ "io" \in lib.no_prof <=> HasFlag("no_io_prof")
      /\ "threadsync" \in lib.no_prof
  BY <1>1, <1>2, <1>3, <1>4, <1>5
<1>7. "GCC_PROF" \in lib.set /\ "gcc" \in preload <=> Has("G")
  <2>1. "GCC_PROF" \in lib.set <=> Has("G")
    BY SettingsArrive DEF Settings, Asks
  <2> QED
    BY <1>1, <1>4, <2>1 DEF FlagsInv
<1>8. lib.pathscale # "none" /\ "pathscale" \in preload <=> Has("Q")
  BY <1>1, <1>4, ValuesArrive, ModeGiven
<1>9. Leaving["mpi"] = "no_mpi_prof" /\ Leaving["io"] = "no_io_prof"
  BY DEF Leaving
<1> QED
  BY <1>6, <1>7, <1>8, <1>9 DEF Gates

\* A program that counts does so with the settings its command line asked for, in
\* whatever order the options came, although each passes the launcher's flags, its
\* tokens, the preloaded libraries and the decoder (main.c:425-760, papiex.c:2998-3128).
THEOREM SettingsDelivered == Spec => []Delivered
<1>1. Init => Delivered
  BY DEF Init, Delivered
<1>2. ASSUME OptionsInv, Delivered, [Next]_vars PROVE Delivered'
  <2>1. CASE stage' # "counting"
    BY <2>1 DEF Delivered
  <2>2. CASE stage' = "counting" /\ ~InitRoutines
    <3>1. stage = "counting" /\ UNCHANGED vars
      BY <1>2, <2>2 DEF Next, Option, TokenOption, MultiplexOption, AutoOption, EventOption, SpecOption, do_G_option,
         do_Q_option, FlagOption, PrintOption, Take, Refuse, UsefulEventsAdded, TestEvents, make_compatible_eventset,
         AppendTokens, Launch, monitor_init_library, vars
    <3>2. /\ \A o : Has(o)' <=> Has(o)
          /\ \A f : HasFlag(f)' <=> HasFlag(f)
          /\ LastArg("Q", "none")' = LastArg("Q", "none") /\ LastArg("E", "default")' = LastArg("E", "default")
          /\ lib' = lib
      BY <3>1, SameOptions DEF vars, LastArg, Has
    <3>3. \A setting \in Settings : Asks(setting)' = Asks(setting)
      <4>1. /\ \A o : Has(o)' = Has(o)
            /\ \A f : HasFlag(f)' = HasFlag(f)
        BY <3>2 DEF Has, HasFlag
      <4> QED
        BY <4>1 DEF Asks, Settings
    <3> QED
      BY <1>2, <3>1, <3>2, <3>3 DEF Delivered
  <2>3. CASE stage' = "counting" /\ InitRoutines
    <3>1. /\ stage = "process" /\ given' = given /\ lib \in LibType
      BY <1>2, <2>3 DEF InitRoutines, OptionsInv, OptType
    <3>2. /\ \A o : Has(o)' <=> Has(o)
          /\ \A f : HasFlag(f)' <=> HasFlag(f)
          /\ LastArg("Q", "none")' = LastArg("Q", "none") /\ LastArg("E", "default")' = LastArg("E", "default")
      BY <3>1, SameOptions DEF LastArg, Has
    <3>3. \A setting \in Settings : Asks(setting)' = Asks(setting)
      <4>1. /\ \A o : Has(o)' = Has(o)
            /\ \A f : HasFlag(f)' = HasFlag(f)
        BY <3>2 DEF Has, HasFlag
      <4> QED
        BY <4>1 DEF Asks, Settings
    <3>4. /\ lib'.set = lib.set /\ lib'.pathscale = lib.pathscale /\ lib'.output = lib.output
          /\ lib'.spec = (IF lib.spec = "none" THEN "default" ELSE lib.spec)
          /\ lib'.domain = (IF lib.domain = {} THEN {"USER"} ELSE lib.domain) /\ lib'.gates = Gates(lib)
      BY <2>3, <3>1, CountedFacts
    <3>5. \A setting \in Settings : (setting \in lib'.set) = Asks(setting)'
      BY <1>2, <3>1, <3>3, <3>4, SettingsArrive
    <3>6. /\ lib'.domain = LET asked == {Word[o] : o \in {q \in {"U", "K", "I", "S"} : Has(q)'}}
                           IN  IF asked = {} THEN {"USER"} ELSE asked
          /\ lib'.pathscale = (IF LastArg("Q", "none")' = "" THEN "all" ELSE LastArg("Q", "none")')
          /\ lib'.spec = LastArg("E", "default")'
          /\ lib'.output = (IF Has("p")' THEN "prefix" ELSE IF Has("f")' THEN "dir" ELSE IF Has("o")' THEN "file" ELSE "none")
      BY <1>2, <3>1, <3>2, <3>4, ValuesArrive
    <3>7. lib'.gates = {w \in {"mpi", "io"} : ~HasFlag(Leaving[w])'}
                         \cup {w \in {"gcc"} : Has("G")'} \cup {w \in {"pathscale"} : Has("Q")'}
      BY <1>2, <3>1, <3>2, <3>4, GatesArrive
    <3> QED
      BY <3>5, <3>6, <3>7 DEF Delivered
  <2> QED
    BY <2>1, <2>2, <2>3
<1> QED
  BY <1>1, <1>2, OptionsInvariant, PTL DEF Spec
=============================================================================
