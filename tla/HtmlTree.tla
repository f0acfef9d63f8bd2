------------------------------ MODULE HtmlTree ------------------------------
(***************************************************************************)
(* libhtml: block_manager.cpp and the tree of html_tree.cpp.  A page is    *)
(* read as the tokens html_tree_scan cuts it into; how characters become a *)
(* token is left out.  A tree is the record                                *)
(*                                                                         *)
(*   [node, next_input_char, next_input_node, stack_depth,                 *)
(*    nodes_heap, attributes_heap, string_heap]                            *)
(*                                                                         *)
(* in which nodes are named by their tag_code: node has the domain 0 .. n, *)
(* with the root at 0, and next_tag_code is n + 1.                         *)
(***************************************************************************)
EXTENDS Integers, Sequences, SequencesExt

CONSTANTS
  UnitNum,              \* HTML_NODE_UNIT_NUM, HTML_ATTRIBUTE_UNIT_NUM: nodes of a block
  MAX_HTML_STACK_DEPTH

ASSUME HtmlTreeAssumption == UnitNum \in Nat \ {0, 1} /\ MAX_HTML_STACK_DEPTH \in Nat \ {0}

NULL == -1

-----------------------------------------------------------------------------
\* A heap of blocks: the blocks below the newest, the nodes taken from the newest.
block_heap_create == [below |-> 0, taken |-> 0]

\* The last node of a block is handed out only with a new block for the next one.
NeedsBlock(h) == h.taken + 1 = UnitNum
block_heap_allocate(h) ==
  IF NeedsBlock(h) THEN [below |-> h.below + 1, taken |-> 0] ELSE [h EXCEPT !.taken = @ + 1]
\* There is no memory for that block: the heap stands behind the end of its block.
AllocateFailed(h) == [h EXCEPT !.taken = @ + 1]

is_clean_heap(h) == h.below = 0 /\ h.taken = 0
block_heap_renew(h) == [h EXCEPT !.below = 0, !.taken = 0]

-----------------------------------------------------------------------------
\* A token: its kind, its tag, and what of its attributes or text matters: where a href
\* points ("absolute", "relative", "inner": into the page or a script), the charset of a
\* meta, or whether a text is "short" (below 11 bytes).
Token(kind, tag, value) == [kind |-> kind, tag |-> tag, value |-> value]
EndOfPage == Token("end of page", "", "")
Root == Token("root", "", "")

\* The tags that the table child_parent_dict puts below others, of those the pages use;
\* "x" is a tag the table does not know (TAG_UNKNOWN).
Parents == [a |-> {"div"}, base |-> {"head"}, br |-> {"a", "div"}, div |-> {"div"},
            head |-> {}, meta |-> {"head"}, option |-> {}, title |-> {"head"}, x |-> {}]

\* Tags that have no child, and tags that are a child of all others.
Childless == {"text", "comment", "doctype", "style", "script", "br", "hr", "wbr", "col", "link",
              "param", "img", "comment2", "spacer", "bgsound", "sound"}
ChildOfAll == {"x", "text", "comment", "doctype", "style"}

\* Slip: the test of the childless is missing.
is_child_tag_Childless(parent, child) ==
  parent.kind = "root" \/ child.tag \in ChildOfAll \/ parent.tag \in Parents[child.tag]

is_child_tag(parent, child) ==
  \/ parent.kind = "root"
  \/ /\ parent.tag \notin Childless
     /\ child.tag \in ChildOfAll \/ parent.tag \in Parents[child.tag]

-----------------------------------------------------------------------------
NewNode(token, parent) == [token |-> token, parent |-> parent, child |-> << >>]
RootNode == [n \in {0} |-> NewNode(Root, NULL)]

html_tree_create ==
  [node |-> RootNode, next_input_char |-> NULL, next_input_node |-> EndOfPage, stack_depth |-> 0,
   nodes_heap |-> block_heap_create, attributes_heap |-> block_heap_create, string_heap |-> 0]

next_tag_code(t) == Cardinality(DOMAIN t.node)

\* Slip: the root keeps its nodes.
html_tree_clean_Root(t) ==
  [t EXCEPT !.nodes_heap = block_heap_renew(@), !.attributes_heap = block_heap_renew(@),
            !.string_heap = 0, !.next_input_char = NULL, !.next_input_node = EndOfPage,
            !.stack_depth = 0]

html_tree_clean(t) ==
  [t EXCEPT !.nodes_heap = block_heap_renew(@), !.attributes_heap = block_heap_renew(@),
            !.string_heap = 0, !.next_input_char = NULL, !.next_input_node = EndOfPage,
            !.stack_depth = 0, !.node = RootNode]

is_clean_tree(t) ==
  /\ is_clean_heap(t.nodes_heap)
  /\ is_clean_heap(t.attributes_heap)
  /\ t.string_heap = 0
  /\ t.next_input_char = NULL
  /\ t.next_input_node = EndOfPage
  /\ next_tag_code(t) = 1
  /\ t.stack_depth = 0
  /\ t.node[0] = NewNode(Root, NULL)

\* html_tree_scan cuts off the token; string_heap counts those it has copied.
HasAttribute(token) == token.kind = "start" /\ token.value # ""
Scanned(t, token) ==
  IF token = EndOfPage THEN [t EXCEPT !.next_input_node = EndOfPage]
  ELSE [t EXCEPT !.next_input_node = token,
                 !.nodes_heap = block_heap_allocate(@),
                 !.attributes_heap = IF HasAttribute(token) THEN block_heap_allocate(@) ELSE @,
                 !.string_heap = @ + 1]

\* It fails when a heap gets no block: before it has a node, or in the attributes.
ScanFails(t, token) ==
  IF NeedsBlock(t.nodes_heap)
  THEN {[t EXCEPT !.next_input_node = EndOfPage, !.nodes_heap = AllocateFailed(@)]}
  ELSE IF HasAttribute(token) /\ NeedsBlock(t.attributes_heap)
  THEN {[t EXCEPT !.next_input_node = token, !.nodes_heap = block_heap_allocate(@),
                  !.attributes_heap = AllocateFailed(@), !.string_heap = @ + 1]}
  ELSE {}

append_child(t, parent, token) ==
  LET child == next_tag_code(t)
      below == [t.node EXCEPT ![parent].child = Append(@, child)]
  IN  [t EXCEPT !.node = [n \in DOMAIN t.node \cup {child} |->
                            IF n = child THEN NewNode(token, parent) ELSE below[n]]]

\* The nodes above n but for the root, along the links to the parent.
Ancestors(t, n) ==
  LET above[m \in DOMAIN t.node] ==
        LET p == t.node[m].parent IN IF p \in {NULL, 0} THEN {} ELSE {p} \cup above[p]
  IN  above[n]

is_this_end_tag(t, n, end) ==
  t.node[n].token.kind = "start" /\ t.node[n].token.tag = end.tag

is_ancestor_end_tag(t, n, end) ==
  n # 0 /\ \E a \in Ancestors(t, n) : t.node[a].token.tag = end.tag

-----------------------------------------------------------------------------
\* The first child of a node, and the next child of its parent, or NULL.
first_child(t, n) == IF t.node[n].child = << >> THEN NULL ELSE t.node[n].child[1]
next_child(t, n) ==
  IF n = 0 THEN NULL
  ELSE LET siblings == t.node[t.node[n].parent].child
           i == CHOOSE j \in DOMAIN siblings : siblings[j] = n
       IN  IF i = Len(siblings) THEN NULL ELSE siblings[i + 1]

\* A visit: the nodes of the calls of html_node_visit, the root first; the visitor that the
\* innermost calls next ("start" or "finish"); and the data of the visitors.
Visit(calls, at, data) == [calls |-> calls, at |-> at, data |-> data]

\* The loop over the children: the call of the next, or the finish visit.
VisitChild(calls, child, data) ==
  IF child = NULL THEN Visit(calls, "finish", data) ELSE Visit(Append(calls, child), "start", data)

\* The innermost call when its visitor has returned r: VISIT_SKIP_CHILD leaves out what is
\* below the node and its finish visit, VISIT_FINISH all that follows.
html_node_visit(t, v, r) ==
  LET n == Last(v.calls)
  IN  IF r.ret = "VISIT_FINISH" THEN Visit(<< >>, v.at, r.data)
      ELSE IF r.ret = "VISIT_NORMAL" /\ v.at = "start"
      THEN VisitChild(v.calls, first_child(t, n), r.data)
      ELSE VisitChild(Front(v.calls), next_child(t, n), r.data)

\* html_tree_visit: a visitor takes a node and the data and returns [ret, data]; each node
\* has at most two visits.
MostVisits(t) == 2 * next_tag_code(t)
html_tree_visit(t, start_visit(_, _), finish_visit(_, _), data) ==
  LET visit[k \in 0 .. MostVisits(t)] ==
        IF k = 0 THEN Visit(<< 0 >>, "start", data)
        ELSE LET v == visit[k - 1]
             IN  IF v.calls = << >> THEN v
                 ELSE html_node_visit(t, v, IF v.at = "start"
                                            THEN start_visit(Last(v.calls), v.data)
                                            ELSE finish_visit(Last(v.calls), v.data))
  IN  visit[MostVisits(t)].data

Visited(ret, data) == [ret |-> ret, data |-> data]

\* search_tag_node: the first node with the tag, from the root, or NULL.
search_tag_node(t, tag) ==
  LET start(n, found) == IF t.node[n].token.tag = tag THEN Visited("VISIT_FINISH", n)
                         ELSE Visited("VISIT_NORMAL", found)
      finish(n, found) == Visited("VISIT_NORMAL", found)
  IN  html_tree_visit(t, start, finish, NULL)

\* process_head_info: of the children of the first head, the last base and the last meta
\* that say something; otherwise what base and charset were.
process_head_info(t, base, charset) ==
  LET head == search_tag_node(t, "head")
      child == t.node[head].child
      telling(tag) == {i \in DOMAIN child : /\ t.node[child[i]].token.tag = tag
                                            /\ t.node[child[i]].token.value # ""}
      last(tag, before) == IF telling(tag) = {} THEN before ELSE child[Max(telling(tag))]
  IN  [base    |-> IF head = NULL THEN base ELSE last("base", base),
       charset |-> IF head = NULL THEN charset ELSE last("meta", charset)]
=============================================================================
