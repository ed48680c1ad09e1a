------------------------------- MODULE Holycc -------------------------------
(***************************************************************************)
(* holycc lint (src/bin/holycc.rs): every file is parsed, then resolved in *)
(* input order against itself and the files before it, then linted against *)
(* all of them.  One step of the first phase is one item of parse_module   *)
(* (src/parse/mod.rs); one step of the others is one file.                 *)
(***************************************************************************)
EXTENDS Resolver, Lint

CONSTANTS
  Corpora,         \* sets of runs of the tool: a run is a sequence of files, a file a
                   \* sequence of lines, a line a sequence of tokens
  ParserItem(_)    \* one item read from a parser's state

ASSUME HolyccAssumption ==
  \A runs \in Corpora : runs \subseteq Seq(Seq(Seq(STRING))) \ {<<>>}

VARIABLES
  files,     \* the files named on the command line
  phase,     \* "parse", "resolve", "lint", "report" or "done"
  k,         \* the file at hand
  p,         \* its parser
  items,     \* its items so far
  modules,   \* the items of each file that was parsed
  globals,   \* the resolver's symbols
  diags,     \* the diagnostics so far, with the file and the phase of each
  exit       \* the exit code, of a run that is over

vars == <<files, phase, k, p, items, modules, globals, diags, exit>>
-----------------------------------------------------------------------------
Tokens(file) == FlattenSeq(file) \o <<Eof>>

\* The line of each token; the end is on the last.
Lines(file) ==
  FlattenSeq([n \in DOMAIN file |-> [m \in DOMAIN file[n] |-> n]]) \o <<Len(file)>>

Parser(file) == NewParser(Tokens(file), Lines(file))

\* Diagnostics as all_diags keeps them, but for their order.
From(ds, file, ph) == {[rule |-> d.rule, at |-> d.at, file |-> file, phase |-> ph] : d \in ds}

\* What a phase does with its last file.
NextFile(next) ==
  IF k < Len(files) THEN k' = k + 1 /\ phase' = phase ELSE k' = 1 /\ phase' = next

Init ==
  /\ \E runs \in Corpora : files \in runs
  /\ phase = "parse"
  /\ k = 1
  /\ p = Parser(files[1])
  /\ items = <<>>
  /\ modules = <<>>
  /\ globals = {}
  /\ diags = {}
  /\ exit = "none"

\* parse_module: an item, or, where none could be made, a token skipped.
ParseItem ==
  /\ phase = "parse"
  /\ ~AtEof(p)
  /\ \E item \in {ParserItem(p)} :
       /\ p' = IF item.r = None THEN Bump(item.p) ELSE item.p
       /\ items' = items \o Opt(item.r)
  /\ UNCHANGED <<files, phase, k, modules, globals, diags, exit>>

FileParsed ==
  /\ phase = "parse"
  /\ AtEof(p)
  /\ modules' = Append(modules, items)
  /\ diags' = diags \cup From(Range(p.diags), k, "parse")
  /\ items' = <<>>
  /\ p' = IF k < Len(files) THEN Parser(files[k + 1]) ELSE p
  /\ NextFile("resolve")
  /\ UNCHANGED <<files, globals, exit>>

ResolveFile ==
  LET known == globals \cup Declared(modules[k])
  IN  /\ phase = "resolve"
      /\ globals' = known
      /\ diags' = diags \cup From(CheckModule(modules[k], known), k, "resolve")
      /\ NextFile("lint")
      /\ UNCHANGED <<files, p, items, modules, exit>>

LintFile ==
  /\ phase = "lint"
  /\ diags' = diags \cup From(LintModule(modules[k], modules), k, "lint")
  /\ NextFile("report")
  /\ UNCHANGED <<files, p, items, modules, globals, exit>>

\* The parser and the resolver report errors only.
Warnings == {"f64-bitwise", "switch-case-shared-scope", "block-shared-scope"}

Report ==
  /\ phase = "report"
  /\ exit' = IF \E d \in diags : d.rule \notin Warnings THEN "1" ELSE "0"
  /\ phase' = "done"
  /\ UNCHANGED <<files, k, p, items, modules, globals, diags>>

Next == ParseItem \/ FileParsed \/ ResolveFile \/ LintFile \/ Report

Spec == Init /\ [][Next]_vars
=============================================================================
