-------------------------- MODULE MCAnalyzerWorker --------------------------
(* Instances of AnalyzerWorker for TLC. *)
EXTENDS AnalyzerWorker

\* a imports b, and b imports c when it contains 1; d is always empty.
MCImports ==
  [p \in Path |-> CASE p = "a" -> [x \in {1} |-> {"b"}]
                    [] p = "b" -> [x \in Text |-> IF x = 1 THEN {"c"} ELSE {}]
                    [] p = "c" -> [x \in Text |-> {}]
                    [] p = "d" -> [x \in {Empty} |-> {}]]

MCExports == [x \in Text |-> x]

\* The file of b imports c; the file of c may fail.
MCDisk ==
  [p \in Path |-> CASE p = "b" -> {1}
                    [] p = "c" -> {Empty, NotOpened, NotRead}
                    [] OTHER -> {Empty}]
=============================================================================
