--------------------------- MODULE PapiexOptions ---------------------------
(***************************************************************************)
(* How a request of the user reaches the library. The launcher (main.c)    *)
(* reads its arguments one by one into a list of tokens, tests the events, *)
(* and passes the tokens and a list of libraries to the program it starts; *)
(* libpapiex (papiex.c) decodes the tokens, looks its wrappers up and sets *)
(* the counters up. The build has PROFILING_SUPPORT and HAVE_BINUTILS.     *)
(***************************************************************************)
EXTENDS Integers, Sequences, FiniteSets

CONSTANTS
  Arguments,   \* the arguments given on the command line, records of Argument
  MaxArgs,     \* bound on the number of arguments
  Known,       \* events the machine has a code for
  Countable,   \* events of these that its counters can count
  Conflicts,   \* pairs of events that exclude each other unless multiplexed
  UsefulEvents, DefaultEvents,  \* the lists the program itself chooses from
  Unsupported, \* domains, as tokens, in which the machine cannot count
  MaxCounters  \* PAPIEX_MAX_COUNTERS

\* The flags of the long options, and shell_dump of -s. Two options are left out:
\* use-papi-presets, whose flag is set from the start, and no-ld-path, which is about
\* LD_LIBRARY_PATH.
LongFlags == {"no_mpi_gather", "no_summary", "no_derived", "no_mpi_prof", "no_io_prof", "no_threadsync_prof",
              "no_scientific", "classic", "csv", "skip", "nocheck", "test", "shell"}

ASSUME OptionsAssumption ==
  /\ MaxArgs \in Nat /\ MaxCounters \in Nat \ {0} /\ Countable \subseteq Known
  /\ UsefulEvents \in Seq(STRING) /\ DefaultEvents \in Seq(STRING)
  /\ \A a \in Arguments : a \in [opt : STRING, arg : STRING] /\ (a.opt = "flag" => a.arg \in LongFlags)
                        /\ (a.opt = "E" => a.arg # "none")  \* none: no file is named

VARIABLES
  stage,
  given,       \* the arguments read so far
  opts,        \* option_string, a sequence of tokens [word, arg]
  flags,       \* the static flags of main.c that are set
  pathscale,   \* pathscale_prof of main.c
  events,      \* the list events of parse_args
  at,          \* strtok: the events or tokens the loop that runs has done
  kept,        \* comp_events of make_compatible_eventset
  preload,     \* the libraries in LD_PRELOAD, apart from the last two
  lib          \* the settings of libpapiex

vars == <<stage, given, opts, flags, pathscale, events, at, kept, preload, lib>>

Token(word, arg) == [word |-> word, arg |-> arg]
Wrappers == {"mpi", "io", "threadsync", "gcc", "pathscale"}

Defaults == [set |-> {}, domain |-> {}, pathscale |-> "none", spec |-> "none",
             output |-> "none", events |-> <<>>, no_prof |-> {"threadsync"}, gates |-> {}]

Init ==
  /\ stage = "args" /\ given = <<>> /\ opts = <<>> /\ flags = {}
  /\ pathscale = "none" /\ events = <<>> /\ at = 0 /\ kept = <<>> /\ preload = {} /\ lib = Defaults

-----------------------------------------------------------------------------
(* parse_args, one argument *)

\* strstr looks into the path of a SPEC token too.
Found(word) == \E i \in DOMAIN opts : opts[i].word = word \/ (opts[i].word = "SPEC" /\ opts[i].arg = word)

\* The token of an option that has one.
Word == [d |-> "DEBUG", q |-> "QUIET", r |-> "RUSAGE", x |-> "MEMORY", n |-> "NO_WRITE",
         w |-> "WRITE_ONLY", U |-> "USER", K |-> "KERNEL", I |-> "OTHER", S |-> "SUPERVISOR",
         p |-> "PREFIX", f |-> "DIR", o |-> "FILE"]

\* With a bug: -n and -w do not look for each other.
Refusing_NoWriteOnly(o) ==
  CASE o = "q" -> {"RUSAGE"}
    [] o \in {"r", "x"} -> {"QUIET"}
    [] o = "n" -> {"DIR", "FILE", "PREFIX"}
    [] o = "p" -> {"DIR", "FILE", "NO_WRITE"}
    [] o = "f" -> {"PREFIX", "FILE", "NO_WRITE"}
    [] o = "o" -> {"PREFIX", "DIR", "NO_WRITE"}
    [] OTHER -> {}

\* The tokens that make parse_args refuse an option.
Refusing(o) ==
  CASE o = "q" -> {"RUSAGE"}
    [] o \in {"r", "x"} -> {"QUIET"}
    [] o = "n" -> {"DIR", "FILE", "PREFIX", "WRITE_ONLY"}
    [] o = "w" -> {"NO_WRITE"}
    [] o = "p" -> {"DIR", "FILE", "NO_WRITE"}
    [] o = "f" -> {"PREFIX", "FILE", "NO_WRITE"}
    [] o = "o" -> {"PREFIX", "DIR", "NO_WRITE"}
    [] OTHER -> {}

\* getopt_long hands argument a over; the options that end the parsing set stage.
Take(a) ==
  /\ stage = "args" /\ Len(given) < MaxArgs
  /\ given' = Append(given, a)
  /\ UNCHANGED <<at, kept, preload, lib>>

Refuse == stage' = "refused" /\ UNCHANGED <<opts, flags, pathscale, events>>

\* The options with a token: -d -q -r -x -n -w -U -K -I -S -p -f -o.
TokenOption(a) ==
  /\ a.opt \in DOMAIN Word /\ Take(a)
  /\ \/ (\E word \in Refusing(a.opt) : Found(word)) /\ Refuse
     \/ /\ \A word \in Refusing(a.opt) : ~Found(word)
        /\ opts' = Append(opts, Token(Word[a.opt], a.arg))
        /\ UNCHANGED <<stage, flags, pathscale, events>>

\* -m, whose interval must be positive.
MultiplexOption(a) ==
  /\ a.opt = "m" /\ Take(a)
  /\ \/ a.arg = "bad" /\ Refuse
     \/ /\ a.arg # "bad"
        /\ opts' = opts \o <<Token("MULTIPLEX", "")>>
                        \o (IF a.arg = "" THEN <<>> ELSE <<Token("MPX_INTERVAL", a.arg)>>)
        /\ flags' = flags \cup {"multiplex"}
        /\ UNCHANGED <<stage, pathscale, events>>

\* With a bug: the launcher multiplexes, the library is not told to.
Implied_MemoryOnly == <<Token("MEMORY", "")>>

\* What -a implies.
Implied == <<Token("MULTIPLEX", ""), Token("MEMORY", "")>>

AutoOption(a) ==
  /\ a.opt = "a" /\ Take(a)
  /\ opts' = opts \o Implied
  /\ flags' = flags \cup {"multiplex", "auto", "skip"}
  /\ UNCHANGED <<stage, pathscale, events>>

EventOption(a) ==
  /\ a.opt = "e" /\ Take(a)
  /\ events' = Append(events, a.arg)
  /\ UNCHANGED <<stage, opts, flags, pathscale>>

\* -E; arg is the word that the path of the file contains, or "missing".
SpecOption(a) ==
  /\ a.opt = "E" /\ Take(a)
  /\ \/ a.arg = "missing" /\ Refuse
     \/ /\ a.arg # "missing"
        /\ opts' = Append(opts, Token("SPEC", a.arg))
        /\ UNCHANGED <<stage, flags, pathscale, events>>

do_G_option(a) ==
  /\ a.opt = "G" /\ Take(a)
  /\ \/ pathscale # "none" /\ Refuse
     \/ /\ pathscale = "none"
        /\ opts' = Append(opts, Token("GCC_PROF", ""))
        /\ flags' = flags \cup {"gcc"}
        /\ UNCHANGED <<stage, pathscale, events>>

\* The types of profile; none stands for all.
Profiles == {"", "all", "funcs", "loops"}

do_Q_option(a) ==
  /\ a.opt = "Q" /\ Take(a)
  /\ \/ ("gcc" \in flags \/ a.arg \notin Profiles) /\ Refuse
     \/ /\ "gcc" \notin flags /\ a.arg \in Profiles
        /\ pathscale' = (IF a.arg = "" THEN "all" ELSE a.arg)
        /\ opts' = Append(opts, Token("PATHSCALE", pathscale'))
        /\ UNCHANGED <<stage, flags, events>>

\* A long option, and -s, only set a flag.
FlagOption(a) ==
  /\ a.opt = "flag" /\ Take(a)
  /\ flags' = flags \cup {a.arg}
  /\ UNCHANGED <<stage, opts, pathscale, events>>

\* -h -i -V -L -l print and exit; an unknown option is refused.
PrintOption(a) ==
  /\ a.opt \in {"print", "unknown"} /\ Take(a)
  /\ stage' = (IF a.opt = "print" THEN "printed" ELSE "refused")
  /\ UNCHANGED <<opts, flags, pathscale, events>>

Option(a) ==
  \/ TokenOption(a) \/ MultiplexOption(a) \/ AutoOption(a) \/ EventOption(a) \/ SpecOption(a)
  \/ do_G_option(a) \/ do_Q_option(a) \/ FlagOption(a) \/ PrintOption(a)

-----------------------------------------------------------------------------
(* The events *)

\* External: PAPI adds event e to an event set that holds chosen.
Adds(chosen, e, multiplexed) ==
  e \in Countable /\ \A i \in DOMAIN chosen : chosen[i] # e /\ (multiplexed \/ {chosen[i], e} \notin Conflicts)

AllAdded(list, multiplexed) ==
  \A i \in DOMAIN list : Adds(SubSeq(list, 1, i - 1), list[i], multiplexed)

\* get_useful_events, after the last argument.
UsefulEventsAdded ==
  /\ stage = "args"
  /\ events' = (IF "auto" \in flags THEN events \o UsefulEvents ELSE events)
  /\ flags' = (IF "test" \in flags THEN flags \cup {"skip"} ELSE flags)
  /\ stage' = "events"
  /\ UNCHANGED <<given, opts, pathscale, at, kept, preload, lib>>

\* The events test_papi_events has looked up before it stops: at the first that is
\* unknown, unless every event is to be tested.
LookedUp ==
  IF "test" \in flags THEN SelectSeq(events, LAMBDA e : e \in Known)
  ELSE LET unknown == {i \in DOMAIN events : events[i] \notin Known}
       IN  IF unknown = {} THEN events ELSE SubSeq(events, 1, (CHOOSE i \in unknown : \A j \in unknown : i <= j) - 1)

Multiplexed == "multiplex" \in flags

\* The names of all events have a code, and all can be added.
CanCount(list, multiplexed) == (\A i \in DOMAIN list : list[i] \in Known) /\ AllAdded(list, multiplexed)

\* test_papi_events returns PAPI_OK.
AllPass == CanCount(events, Multiplexed)

\* The event test; it exits at a list that is too long, and at an event that fails
\* unless such events are skipped.
TestEvents ==
  /\ stage = "events"
  /\ IF events = <<>> \/ "nocheck" \in flags THEN stage' = "tokens" /\ UNCHANGED <<events, flags>>
     ELSE \/ /\ Len(LookedUp) >= MaxCounters \/ ("skip" \notin flags /\ ~AllPass)
             /\ stage' = "refused" /\ UNCHANGED <<events, flags>>
          \/ /\ Len(LookedUp) < MaxCounters /\ AllPass
             /\ stage' = "tokens" /\ UNCHANGED <<events, flags>>
          \/ /\ Len(LookedUp) < MaxCounters /\ "skip" \in flags /\ ~AllPass
             /\ flags' = flags \cup {"not_all_added"}
             /\ stage' = "compatible" /\ UNCHANGED events
  /\ UNCHANGED <<given, opts, pathscale, at, kept, preload, lib>>

\* With a bug: an event is tried alone.
Fits_Alone(e) == e \in Known /\ Adds(<<>>, e, Multiplexed)

\* An event is tried with those kept before it.
Fits(e) == e \in Known /\ Adds(kept, e, Multiplexed)

\* make_compatible_eventset, one round of its loop and its end.
make_compatible_eventset ==
  /\ stage = "compatible"
  /\ \/ /\ at < Len(events) /\ at' = at + 1
        /\ kept' = (IF Fits(events[at']) THEN Append(kept, events[at']) ELSE kept)
        /\ UNCHANGED <<stage, events>>
     \/ /\ at = Len(events) /\ at' = 0
        /\ events' = kept /\ stage' = "tokens" /\ UNCHANGED kept
  /\ UNCHANGED <<given, opts, flags, pathscale, preload, lib>>

-----------------------------------------------------------------------------
(* The end of the launcher *)

\* The tokens of the flags, in the order parse_args appends them.
LongTokens ==
  LET when(flag, word) == IF flag \in flags THEN <<Token(word, "")>> ELSE <<>>
  IN  when("no_mpi_gather", "NO_MPI_GATHER") \o when("no_summary", "NO_SUMMARY_STATS")
        \o when("no_derived", "NO_DERIVED_STATS") \o when("no_mpi_prof", "NO_MPI_PROF")
        \o when("no_io_prof", "NO_IO_PROF") \o when("no_threadsync_prof", "NO_THREADSYNC_PROF")
        \o when("no_scientific", "NO_SCIENTIFIC")
        \o (IF "classic" \in flags THEN <<>> ELSE <<Token("NEXTGEN", "")>>)
        \o when("csv", "CSV")

\* The events and the flags become tokens; a command must follow, unless none is run.
AppendTokens ==
  /\ stage = "tokens"
  /\ opts' = opts \o [i \in DOMAIN events |-> Token("EVENT", events[i])] \o LongTokens
  /\ \/ stage' = "launch"
     \/ {"shell", "test"} \cap flags = {} /\ stage' = "refused"
  /\ UNCHANGED <<given, flags, pathscale, events, at, kept, preload, lib>>

\* The flags that leave a wrapper out.
Leaving == [mpi |-> "no_mpi_prof", io |-> "no_io_prof", threadsync |-> "no_threadsync_prof"]

Libraries ==
  {w \in DOMAIN Leaving : Leaving[w] \notin flags}
    \cup {w \in {"gcc"} : "gcc" \in flags} \cup {w \in {"pathscale"} : pathscale # "none"}

\* main sets LD_PRELOAD and the options, and runs the command unless -s or --test.
Launch ==
  /\ stage = "launch"
  /\ preload' = Libraries
  /\ stage' = (IF "test" \in flags /\ (events = <<>> \/ "not_all_added" \in flags) THEN "refused"
               ELSE IF {"shell", "test"} \cap flags # {} THEN "printed"
               ELSE "library")
  /\ UNCHANGED <<given, opts, flags, pathscale, events, at, kept, lib>>

-----------------------------------------------------------------------------
(* The library *)

Domains == {"USER", "KERNEL", "OTHER", "SUPERVISOR"}
Outputs == [PREFIX |-> "prefix", DIR |-> "dir", FILE |-> "file"]
Unset == [NO_MPI_PROF |-> "mpi", NO_IO_PROF |-> "io", NO_THREADSYNC_PROF |-> "threadsync"]

\* With a bug: = for |=.
DomainWith_Only(domain, word) == {word}

DomainWith(domain, word) == domain \cup {word}

\* One round of the strtok loop. QUIET sets nothing. (An event named PAPI_... sets the
\* default spec file, which papiex_thread_init_routine sets anyway: see InitRoutines.)
Decode(s, t) ==
  CASE t.word = "QUIET" -> s
    [] t.word \in Domains -> [s EXCEPT !.domain = DomainWith(@, t.word)]
    [] t.word = "PATHSCALE" -> [s EXCEPT !.pathscale = t.arg]
    [] t.word = "SPEC" -> [s EXCEPT !.spec = t.arg]
    [] t.word \in DOMAIN Outputs -> [s EXCEPT !.output = Outputs[t.word]]
    [] t.word \in DOMAIN Unset -> [s EXCEPT !.no_prof = @ \cup {Unset[t.word]}]
    [] t.word = "CSV" -> [s EXCEPT !.set = @ \cup {"CSV", "NEXTGEN"}]
    [] t.word = "EVENT" -> [s EXCEPT !.events = Append(@, t.arg)]
    [] OTHER -> [s EXCEPT !.set = @ \cup {t.word}]

\* Nextgen papiex ignores NO_WRITE.
Adjusted(s) == IF "NEXTGEN" \in s.set THEN [s EXCEPT !.set = @ \ {"NO_WRITE"}] ELSE s

\* A wrapper whose library is not loaded is not found: it is not used.
LookUp(s) == [s EXCEPT !.no_prof = @ \cup ({"mpi", "io", "threadsync"} \ preload)]

\* Each round of the loop takes a token; DIR ends the program when the directory of the
\* output cannot be made.
monitor_init_library ==
  /\ stage = "library"
  /\ \/ /\ at < Len(opts) /\ at' = at + 1
        /\ lib' = Decode(lib, opts[at'])
        /\ stage' = "library" \/ (opts[at'].word = "DIR" /\ stage' = "refused")
     \/ /\ at = Len(opts) /\ lib' = LookUp(Adjusted(lib))
        /\ stage' = "process" /\ UNCHANGED at
  /\ UNCHANGED <<given, opts, flags, pathscale, events, kept, preload>>

Gates(s) ==
  ({"mpi", "io", "threadsync"} \ s.no_prof)
    \cup {w \in {"gcc"} : "GCC_PROF" \in s.set /\ w \in preload}
    \cup {w \in {"pathscale"} : s.pathscale # "none" /\ w \in preload}

Counted(s) == IF s.events = <<>> THEN DefaultEvents ELSE s.events

ChosenDomain(s) == IF s.domain = {} THEN {"USER"} ELSE s.domain

\* papiex_process_init_routine and papiex_thread_init_routine: an event that is unknown
\* or cannot be added ends the program, and so does a domain that cannot be set, which
\* PAPI_set_domain is asked for between the two. (Whether an event can be added is taken
\* not to depend on the domain.)
InitRoutines ==
  /\ stage = "process"
  /\ stage' = (IF CanCount(Counted(lib), "MULTIPLEX" \in lib.set) /\ ChosenDomain(lib) \cap Unsupported = {}
               THEN "counting" ELSE "failed")
  /\ lib' = [lib EXCEPT !.events = Counted(lib), !.gates = Gates(lib), !.domain = ChosenDomain(lib),
                        !.spec = IF @ = "none" THEN "default" ELSE @]
  /\ UNCHANGED <<given, opts, flags, pathscale, events, at, kept, preload>>

Next ==
  \/ \E a \in Arguments : Option(a)
  \/ UsefulEventsAdded \/ TestEvents \/ make_compatible_eventset \/ AppendTokens \/ Launch
  \/ monitor_init_library \/ InitRoutines

Spec == Init /\ [][Next]_vars

-----------------------------------------------------------------------------
(* Properties *)

Has(o) == \E i \in DOMAIN given : given[i].opt = o
HasFlag(f) == \E i \in DOMAIN given : given[i].opt = "flag" /\ given[i].arg = f

\* The argument of the last option o, or none.
LastArg(o, none) ==
  IF Has(o) THEN LET i == CHOOSE i \in DOMAIN given :
                           given[i].opt = o /\ \A j \in DOMAIN given : given[j].opt = o => j <= i
                 IN  given[i].arg
  ELSE none

\* What the manual says each option makes the library do, whatever their order.
Asks(setting) ==
  CASE setting = "MULTIPLEX" -> Has("m") \/ Has("a")
    [] setting = "MEMORY" -> Has("x") \/ Has("a")
    [] setting = "RUSAGE" -> Has("r")
    [] setting = "WRITE_ONLY" -> Has("w")
    [] setting = "GCC_PROF" -> Has("G")
    [] setting = "NO_WRITE" -> Has("n") /\ HasFlag("classic") /\ ~HasFlag("csv")
    [] setting = "NEXTGEN" -> ~HasFlag("classic") \/ HasFlag("csv")
    [] setting = "CSV" -> HasFlag("csv")
    [] setting = "NO_MPI_GATHER" -> HasFlag("no_mpi_gather")

Settings == {"MULTIPLEX", "MEMORY", "RUSAGE", "WRITE_ONLY", "GCC_PROF", "NO_WRITE", "NEXTGEN", "CSV",
             "NO_MPI_GATHER"}

\* Delivered: a program that counts does so with the settings its command line asked
\* for, in whatever order the options came, although every setting passes the
\* launcher's flags, its tokens, the preloaded libraries and the decoder
\* (main.c:425-760, papiex.c:2998-3128). The thread synchronisation wrapper is the
\* exception: it is loaded and never used, because its default in the library is off
\* and no token turns it on (papiex.c:2986).
Delivered ==
  stage = "counting" =>
    /\ \A setting \in Settings : (setting \in lib.set) = Asks(setting)
    /\ lib.domain = LET asked == {Word[o] : o \in {q \in {"U", "K", "I", "S"} : Has(q)}}
                    IN  IF asked = {} THEN {"USER"} ELSE asked
    /\ lib.pathscale = (IF LastArg("Q", "none") = "" THEN "all" ELSE LastArg("Q", "none"))
    /\ lib.spec = LastArg("E", "default")
    /\ lib.output = (IF Has("p") THEN "prefix" ELSE IF Has("f") THEN "dir" ELSE IF Has("o") THEN "file" ELSE "none")
    /\ lib.gates = {w \in {"mpi", "io"} : ~HasFlag(Leaving[w])}
                     \cup {w \in {"gcc"} : Has("G")} \cup {w \in {"pathscale"} : Has("Q")}

Exclusive == {{"q", "r"}, {"n", "f"}, {"n", "o"}, {"n", "p"}, {"n", "w"}, {"f", "p"}, {"f", "o"},
              {"p", "o"}, {"G", "Q"}}

\* CompatibleOnly: two options that the messages of main.c call incompatible are never
\* both accepted, in either order (main.c:515-625): each one's case looks for the
\* tokens of the others. (-x and -q are left out: -x before -q is accepted.)
CompatibleOnly ==
  stage \in {"library", "process", "counting"} =>
    \A pair \in Exclusive : \E o \in pair : ~Has(o)

\* Where the event of argument i stands among those asked for with -e.
Rank(i) == Cardinality({j \in 1 .. i : given[j].opt = "e"})

\* The events that -a adds to those asked for.
Extra == IF Has("a") THEN UsefulEvents ELSE <<>>

\* The list of the events asked for, in order.
AsRequested(list) ==
  LET n == Rank(Len(given))
  IN  /\ Len(list) = n + Len(Extra)
      /\ \A i \in DOMAIN given : given[i].opt = "e" => list[Rank(i)] = given[i].arg
      /\ \A i \in DOMAIN Extra : list[n + i] = Extra[i]

Requested(e) ==
  \/ \E i \in DOMAIN given : given[i].opt = "e" /\ given[i].arg = e
  \/ \E i \in DOMAIN Extra : Extra[i] = e

\* EventsKept: the library is given all events that were asked for; only where skipping
\* is allowed some are missing, and then none that could have been counted together
\* with the ones that are there (test_papi_events, make_compatible_eventset).
EventsKept ==
  stage = "process" =>
    \/ AsRequested(lib.events)
    \/ /\ HasFlag("skip") \/ Has("a")
       /\ AllAdded(lib.events, Multiplexed)
       /\ \A i \in DOMAIN lib.events : Requested(lib.events[i])
       /\ ~\E e \in Countable : Requested(e) /\ Adds(lib.events, e, Multiplexed)

\* CheckedEventsRun: events that passed the launcher's test do not stop the program when
\* the library adds them to its own event set, with its own idea of multiplexing
\* (main.c:1056-1159, papiex.c:2225-2237 and 2105-2117). What the launcher does not test
\* can: the library's own choice, when there are no events, and the domain that the
\* library sets before it adds them (papiex.c:2279-2284).
CheckedEventsRun ==
  stage = "failed" =>
    \/ HasFlag("nocheck")
    \/ events = <<>> /\ ~CanCount(DefaultEvents, "MULTIPLEX" \in lib.set)
    \/ lib.domain \cap Unsupported # {}

=============================================================================
