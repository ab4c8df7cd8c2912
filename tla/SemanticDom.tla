----------------------------- MODULE SemanticDom -----------------------------
(***************************************************************************)
(* What the DOM tools read off one element (src/dom/roles.ts, naming.ts,    *)
(* perceivable.ts, snapshot.ts, interact.ts), over a document that is a     *)
(* finite tree of nodes numbered in document order.                         *)
(*                                                                         *)
(* A node is a record: its tag and its input type; its role attribute; the   *)
(* flags it carries; the names its aria-labelledby, aria-label, labels, alt *)
(* and title yield and the text it has, NoName where one yields none; its    *)
(* value; and, of a select, the labels of its options. An attribute and the  *)
(* computed style it stands for are one flag, and a style that inherits is  *)
(* not overridden below.                                                    *)
(***************************************************************************)
EXTENDS Naturals, FiniteSets, SequencesExt

CONSTANTS
  MaxNode,  \* the nodes below the body are 1..MaxNode
  Parent,   \* the parent of each, 0 for the body
  NoName

ASSUME TreeAssumption ==
  MaxNode \in Nat /\ Parent \in [1..MaxNode -> 0..MaxNode] /\ \A n \in 1..MaxNode : Parent[n] < n

Nodes == 1..MaxNode

(* A node and its ancestors, up to the body. *)
Lineage[n \in 0..MaxNode] == IF n = 0 THEN {} ELSE {n} \cup Lineage[Parent[n]]

-----------------------------------------------------------------------------
(***************************************************************************)
(* roles.ts                                                                *)
(***************************************************************************)
SnapshotRole ==
  {"button", "link", "textbox", "searchbox", "checkbox", "radio", "combobox", "listbox", "option",
   "slider", "spinbutton", "switch", "tab", "menuitem", "heading", "navigation", "main", "banner",
   "contentinfo", "complementary", "form", "search", "region", "dialog", "alertdialog", "table",
   "row", "cell", "columnheader", "list", "listitem", "status", "alert", "progressbar"}

NoRole == "none"

(* An input's implicit role, by its type: a hidden one has none.             *)
InputRole(type) ==
  CASE type \in {"button", "submit", "reset", "image"} -> "button"
    [] type \in {"checkbox", "radio"} -> type
    [] type = "range" -> "slider"
    [] type = "number" -> "spinbutton"
    [] type = "search" -> "searchbox"
    [] type \in {"text", "email", "password", "tel", "url", "date", "datetime-local", "month",
                 "week", "time"} -> "textbox"
    [] OTHER -> NoRole

TagRole(tag) ==
  CASE tag = "BUTTON" -> "button"       [] tag = "SELECT" -> "combobox"
    [] tag = "TEXTAREA" -> "textbox"    [] tag = "OPTION" -> "option"
    [] tag = "NAV" -> "navigation"      [] tag = "MAIN" -> "main"
    [] tag = "HEADER" -> "banner"       [] tag = "FOOTER" -> "contentinfo"
    [] tag = "ASIDE" -> "complementary" [] tag = "FORM" -> "form"
    [] tag = "DIALOG" -> "dialog"       [] tag = "TABLE" -> "table"
    [] tag = "TR" -> "row"              [] tag = "TD" -> "cell"
    [] tag = "TH" -> "columnheader"     [] tag = "LI" -> "listitem"
    [] tag \in {"UL", "OL"} -> "list"   [] tag = "OUTPUT" -> "status"
    [] tag \in {"H1", "H2", "H3", "H4", "H5", "H6"} -> "heading"
    [] tag = "PROGRESS" -> "progressbar"
    [] OTHER -> NoRole

(* An explicit role of the closed set wins; a bare anchor is only text.      *)
roleOf(node) ==
  IF node.role \in SnapshotRole THEN node.role
  ELSE IF node.tag = "A" THEN (IF "href" \in node.flags THEN "link" ELSE NoRole)
  ELSE IF node.tag = "INPUT" THEN InputRole(node.type)
  ELSE TagRole(node.tag)

namesFromContent(role) ==
  role \in {"button", "link", "heading", "option", "checkbox", "radio", "switch", "tab", "menuitem",
            "cell", "columnheader", "row", "listitem", "status", "alert"}

-----------------------------------------------------------------------------
(***************************************************************************)
(* naming.ts: the first source that yields a name, the text last and only    *)
(* where the role is named by its content.                                  *)
(***************************************************************************)
accessibleNameOf(node, nameFromContent) ==
  LET sources == <<node.labelledby, node.label, node.labels, node.alt, node.title>>
                   \o (IF nameFromContent THEN <<node.text>> ELSE <<>>)
      named == SelectSeq(sources, LAMBDA name : name # NoName)
  IN  IF named = <<>> THEN NoName ELSE named[1]

nameOf(node) == accessibleNameOf(node, namesFromContent(roleOf(node)))

-----------------------------------------------------------------------------
(***************************************************************************)
(* perceivable.ts, and what snapshot.ts describes                           *)
(***************************************************************************)
hiding == {"aria-hidden", "hidden", "inert", "display-none", "visibility-hidden"}

isPerceivable(page, n) ==
  /\ ~(page[n].tag = "INPUT" /\ page[n].type = "hidden")
  /\ \A m \in Lineage[n] : page[m].flags \cap hiding = {}

(* The nodes a snapshot describes. *)
Described(page, connected) ==
  {n \in connected : roleOf(page[n]) # NoRole /\ isPerceivable(page, n)}

-----------------------------------------------------------------------------
(***************************************************************************)
(* interact.ts                                                             *)
(***************************************************************************)
(* element.disabled exists on form controls alone.                          *)
FormControl == {"BUTTON", "INPUT", "SELECT", "TEXTAREA", "OPTION", "FIELDSET"}
disabledProperty(node) == node.tag \in FormControl /\ "disabled" \in node.flags

(* The nearest ancestor, itself included, that forbids it, 0 when none does. *)
Forbids(page, n) ==
  LET those == {m \in Lineage[n] : page[m].flags \cap {"aria-disabled", "inert"} # {}}
  IN  IF those = {} THEN 0 ELSE CHOOSE m \in those : \A o \in those : o <= m

interactabilityOf(page, n) ==
  LET m == Forbids(page, n) IN
  IF m # 0 THEN (IF "aria-disabled" \in page[m].flags THEN "ariaDisabled" ELSE "inert")
  ELSE IF disabledProperty(page[n]) THEN "disabled"
  ELSE IF \E a \in Lineage[n] : "pointer-events-none" \in page[a].flags THEN "pointerEventsNone"
  ELSE IF ~isPerceivable(page, n) THEN "notPerceivable"
  ELSE "operable"

FillableInputTypes ==
  {"text", "search", "email", "tel", "url", "number", "password", "date", "datetime-local", "month",
   "week", "time"}

fillabilityOf(page, n) ==
  LET node == page[n] IN
  IF interactabilityOf(page, n) # "operable" THEN interactabilityOf(page, n)
  ELSE IF ~(node.tag = "TEXTAREA" \/ (node.tag = "INPUT" /\ node.type \in FillableInputTypes))
  THEN "notAField"
  ELSE IF "readonly" \in node.flags THEN "readOnly"
  ELSE "operable"

(* The option of that label is what applySelect looks for. *)
selectabilityOf(page, n, option) ==
  IF interactabilityOf(page, n) # "operable" THEN interactabilityOf(page, n)
  ELSE IF page[n].tag # "SELECT" \/ option \notin page[n].options THEN "notAField"
  ELSE "operable"

=============================================================================
