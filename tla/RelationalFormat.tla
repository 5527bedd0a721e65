--------------------------- MODULE RelationalFormat ---------------------------
(***************************************************************************)
(* The indented text rendering of a RelationalPlan (sqlrel/src/            *)
(* relational.rs): Display calls format(f, 0); format writes "| " repeated *)
(* depth-1 times (nothing at depth 0), the node's header line, then its    *)
(* children at depth+1, left before right.  A Values node writes its rows *)
(* and the closing "]" on lines of their own, with no leading indent.     *)
(*                                                                         *)
(* A rendered line is abstracted to its indent (the number of "| " units) *)
(* and what it shows: a node header (the node kind and, for a Join, the  *)
(* join type), a Values row, or the closing bracket.  Expressions, table *)
(* references and schemas are left out: the properties are about the      *)
(* tree's shape.                                                           *)
(***************************************************************************)
EXTENDS Naturals, Sequences, SequencesExt

CONSTANTS
  MaxNodes,     \* largest plan tree, in nodes
  MaxRows       \* most rows of a Values node

JoinTypes == {"inner", "left", "right"}

(***************************************************************************)
(* The RelationalPlan values with exactly n nodes: Scan and Values leaves, *)
(* Filter and Project over one input, Join and CrossJoin over two.        *)
(* meta is the join type of a Join, the row count of a Values, else "-".  *)
(***************************************************************************)
RECURSIVE PlansN(_)
PlansN(n) ==
  IF n = 1
  THEN {[kind |-> "Scan", meta |-> "-", children |-> <<>>]}
       \cup {[kind |-> "Values", meta |-> r, children |-> <<>>] : r \in 0..MaxRows}
  ELSE {[kind |-> k, meta |-> "-", children |-> <<p>>] :
          k \in {"Filter", "Project"}, p \in PlansN(n - 1)}
       \cup UNION {{[kind |-> "Join", meta |-> jt, children |-> <<l, r>>] :
                      jt \in JoinTypes, l \in PlansN(i), r \in PlansN(n - 1 - i)}
                   \cup {[kind |-> "CrossJoin", meta |-> "-", children |-> <<l, r>>] :
                      l \in PlansN(i), r \in PlansN(n - 1 - i)} : i \in 1..(n - 2)}

Plans == UNION {PlansN(n) : n \in 1..MaxNodes}

Line(indent, text) == [indent |-> indent, text |-> text]

(* The text of a Values row and of the closing bracket.                   *)
RowText == [kind |-> "row", meta |-> "-"]
CloseText == [kind |-> "]", meta |-> "-"]

(* The line a node writes first: its kind, and for a Join its type; the  *)
(* Values header ("Values: values = [") does not show the row count.     *)
Header(plan) ==
  [kind |-> plan.kind, meta |-> IF plan.kind = "Values" THEN "-" ELSE plan.meta]

(* Mutant: a Join renders its right input before its left.               *)
InputsSwapped(plan) ==
  IF plan.kind = "Join" THEN Reverse(plan.children) ELSE plan.children

(* The inputs each match arm formats after the header: project.input,     *)
(* filter.input, join.left then join.right, the cross join's left then   *)
(* right; none for Scan and Values.                                        *)
Inputs(plan) == plan.children

(***************************************************************************)
(* RelationalPlan::format: the "| " prefix (none at depth 0), the header, *)
(* then the Values rows and "]" unindented, or each input formatted at    *)
(* depth + 1 in order.                                                     *)
(***************************************************************************)
RECURSIVE Format(_, _)
Format(plan, depth) ==
  LET lead == IF depth > 0 THEN depth - 1 ELSE 0
      kids == Inputs(plan)
  IN <<Line(lead, Header(plan))>>
     \o IF plan.kind = "Values"
        THEN [i \in 1..plan.meta |-> Line(0, RowText)] \o <<Line(0, CloseText)>>
        ELSE FlattenSeq([i \in DOMAIN kids |-> Format(kids[i], depth + 1)])

(* impl Display for RelationalPlan: format(f, 0).                         *)
Display(plan) == Format(plan, 0)

(***************************************************************************)
(* Reference definitions, independent of format: the nodes of a plan in   *)
(* preorder, each named by its path of child positions from the root.    *)
(***************************************************************************)
RECURSIVE Preorder(_, _)
Preorder(plan, path) ==
  <<[path |-> path, node |-> Header(plan)]>>
  \o FlattenSeq([i \in DOMAIN plan.children |->
                   Preorder(plan.children[i], Append(path, i))])

(* The header lines of a rendering, in order.                             *)
Headers(lines) == SelectSeq(lines, LAMBDA l : l.text \notin {RowText, CloseText})

VARIABLES
  plan,         \* the plan being displayed
  out           \* the lines Display wrote (<<>> before it ran)

vars == <<plan, out>>

TypeOK ==
  /\ plan \in Plans
  /\ out \in Seq([indent : Nat,
                  text : [kind : STRING, meta : JoinTypes \cup 0..MaxRows \cup {"-"}]])

Init == plan \in Plans /\ out = <<>>

(* A caller formats the plan with {}.                                      *)
Render ==
  /\ out = <<>>
  /\ out' = Display(plan)
  /\ UNCHANGED plan

Next == Render

Spec == Init /\ [][Next]_vars

(***************************************************************************)
(* Properties                                                              *)
(***************************************************************************)

(* The explain output lists every node of the plan once, in preorder      *)
(* (inputs left before right), each with its own kind and metadata: the   *)
(* header lines of Display are the reference preorder of the tree.         *)
HeadersArePreorder ==
  out # <<>> =>
    LET pre == Preorder(plan, <<>>)
    IN /\ Len(Headers(out)) = Len(pre)
       /\ \A i \in 1..Len(pre) : Headers(out)[i].text = pre[i].node

(* Spec section 8: indentation follows the tree, one "| " unit per        *)
(* ancestor, so every node's header is indented deeper than its parent's *)
(* (format's "| ".repeat(depth - 1)).                                     *)
ChildIndentedBelowParent ==
  out # <<>> =>
    LET pre == Preorder(plan, <<>>)
        hs  == Headers(out)
    IN \A i, j \in 1..Len(pre) :
         pre[i].path # <<>> /\ pre[j].path = Front(pre[i].path)
           => hs[i].indent > hs[j].indent

=============================================================================
