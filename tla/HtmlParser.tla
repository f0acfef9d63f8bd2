----------------------------- MODULE HtmlParser -----------------------------
(***************************************************************************)
(* libhtml: html_tree_parse and html_tree_parse_sub_tree step by step,     *)
(* html_parser.cpp and the three tree visitors, as web_parser/web_parse.cpp*)
(* uses them: one parser, page after page, each parsed, read and reset.    *)
(* A page has no font sizes and no h1, h2, h3, b or strong, so that the    *)
(* content visitor's filter by font never applies, and its title fits.     *)
(***************************************************************************)
EXTENDS HtmlTree

CONSTANTS
  Pages,            \* kinds of page: the tokens it begins with, those it goes on with
  max_links_num,
  MaxPage           \* bound: tokens a page goes on with

\* The tokens of a page: tags and texts.
PageToken == [kind : {"start", "end"}, tag : STRING \ {"text"}, value : STRING]
             \cup [kind : {"text"}, tag : {"text"}, value : {"short", "long"}]

ASSUME HtmlParserAssumption ==
  /\ max_links_num \in Nat \ {0} /\ MaxPage \in Nat
  /\ Pages \subseteq [begin : Seq(PageToken), more : SUBSET PageToken]

VARIABLES
  tree,             \* tree_->tree
  base_url_,        \* the URL links are relative to: the page's own, 0, or that of a base node
  charset_,         \* the meta node that names the charset, or NULL
  title_, content_, \* nodes whose text they hold; in content_ 0 is a space
  links_,           \* the first links_num_ links: [node, base, text]
  pc,
  open,             \* the calls of html_tree_parse_sub_tree: their nodes, the root first
  page              \* its kind and the tokens scanned, read as below, or that it was refused

vars == <<tree, base_url_, charset_, title_, content_, links_, pc, open, page>>

parsed == <<title_, content_, links_>>
head == <<base_url_, charset_>>

\* What a page says, token by token: "placed" has those that become nodes, named by their
\* places; "ok" that all its tags are closed inside out, each start tag below a tag it may
\* be below and not too deep; "open" the elements open behind the tokens so far, and
\* "parent" the element each node stands in, or 0.
NothingRead == [ok |-> TRUE, open |-> << >>, parent |-> << >>, placed |-> << >>]
Element(r) == IF r.open = << >> THEN 0 ELSE Last(r.open)
ElementToken(r) == IF Element(r) = 0 THEN Root ELSE r.placed[Element(r)]

ReadEnd(r, t) ==
  [ok     |-> r.ok /\ Element(r) # 0 /\ ElementToken(r).tag = t.tag,
   open   |-> IF r.open = << >> THEN r.open ELSE Front(r.open),
   parent |-> r.parent,
   placed |-> r.placed]

ReadStart(r, t) ==
  [ok     |-> /\ r.ok
              /\ is_child_tag(ElementToken(r), t)
              /\ t.tag \in Childless \/ Len(r.open) + 2 <= MAX_HTML_STACK_DEPTH,
   open   |-> IF t.tag \in Childless THEN r.open ELSE Append(r.open, Len(r.placed) + 1),
   parent |-> Append(r.parent, Element(r)),
   placed |-> Append(r.placed, t)]

Read(r, t) == IF t.kind = "end" THEN ReadEnd(r, t) ELSE ReadStart(r, t)

NoPage == [tokens |-> << >>, kind |-> [begin |-> << >>, more |-> {}], refused |-> FALSE,
           read |-> NothingRead]

Init ==
  /\ tree = html_tree_create
  /\ base_url_ = 0 /\ charset_ = NULL
  /\ title_ = << >> /\ content_ = << >> /\ links_ = << >>
  /\ pc = "idle" /\ open = << >> /\ page = NoPage

\* Texts do not follow one another: a text ends where a tag begins.
Tokens(pg) ==
  LET n == Len(pg.tokens)
      begin == pg.kind.begin
  IN  IF n < Len(begin) THEN {begin[n + 1]}
      ELSE IF n = Len(begin) + MaxPage THEN {}
      ELSE {t \in pg.kind.more : t.kind = "text" => n = 0 \/ Last(pg.tokens).kind # "text"}

\* The next token is one of those, or the page ends; a token may find no memory.
Scan(t, pg, Then(_, _), Fail(_)) ==
  \/ Then(Scanned(t, EndOfPage), pg)
  \/ \E token \in Tokens(pg) :
       \/ Then(Scanned(t, token), [pg EXCEPT !.tokens = Append(@, token),
                                                    !.read = Read(@, token)])
       \/ \E f \in ScanFails(t, token) : Fail(f)

-----------------------------------------------------------------------------
\* html_tree_parse is over, with whatever result: parse does not look at it.
ProcessHead(t) ==
  LET h == process_head_info(t, base_url_, charset_)
  IN  base_url_' = h.base /\ charset_' = h.charset
Fails(t) == tree' = t /\ pc' = "parsed" /\ open' = << >> /\ ProcessHead(t) /\ UNCHANGED <<parsed, page>>

\* html_tree_parse_sub_tree of the innermost node returns 1; the loop of its parent goes on.
Return(t, pg) ==
  /\ open' = Front(open)
  /\ IF Len(open) = 1
     THEN tree' = t /\ pc' = "parsed" /\ ProcessHead(t)
     ELSE tree' = [t EXCEPT !.stack_depth = @ - 1] /\ UNCHANGED <<pc, head>>
  /\ page' = pg
  /\ UNCHANGED parsed

\* ... goes on with the next token, or, when t has a new node, calls itself for it; the call
\* of a node too deep returns at once.
GoOn(t, pg) == tree' = t /\ page' = pg /\ UNCHANGED <<open, pc, parsed, head>>
Call(t, child, pg) ==
  /\ IF t.stack_depth + 1 > MAX_HTML_STACK_DEPTH
     THEN tree' = t /\ UNCHANGED open
     ELSE tree' = [t EXCEPT !.stack_depth = @ + 1] /\ open' = Append(open, child)
  /\ page' = pg
  /\ UNCHANGED <<pc, parsed, head>>

-----------------------------------------------------------------------------
\* parse: what was parsed before is forgotten, and html_tree_parse begins.
Parse(kind) ==
  LET t == [tree EXCEPT !.next_input_char = 0]
      pg == [NoPage EXCEPT !.kind = kind]
      begun == base_url_' = 0 /\ charset_' = NULL
      Begins(s, p) == /\ tree' = [s EXCEPT !.stack_depth = @ + 1]
                      /\ pc' = "parsing" /\ open' = <<0>> /\ page' = p
      Stops(s) == tree' = s /\ pc' = "parsed" /\ open' = << >> /\ page' = pg
  IN  /\ pc = "idle"
      /\ title_' = << >> /\ content_' = << >> /\ links_' = << >>
      /\ begun
      /\ IF is_clean_tree(tree) THEN Scan(t, pg, Begins, Stops) ELSE Stops(tree)

\* A page longer than max_page_len: parse returns -1, which its callers do not look at.
ParseTooLong ==
  /\ pc = "idle"
  /\ pc' = "done"
  /\ page' = [NoPage EXCEPT !.refused = TRUE]
  /\ UNCHANGED <<tree, head, parsed, open>>

next == tree.next_input_node
node == Last(open)

AtEndOfPage == pc = "parsing" /\ next = EndOfPage /\ Return(tree, page)

\* An end tag closes the node it names, the innermost or one above; another is ignored.
EndTag ==
  /\ pc = "parsing" /\ next.kind = "end"
  /\ IF is_this_end_tag(tree, node, next) THEN Scan(tree, page, Return, Fails)
     ELSE IF is_ancestor_end_tag(tree, node, next) THEN Return(tree, page)
     ELSE Scan(tree, page, GoOn, Fails)

\* A text or start tag becomes the innermost node's last child, or ends it.
StartTag ==
  /\ pc = "parsing" /\ next.kind \in {"start", "text"}
  /\ IF ~ is_child_tag(tree.node[node].token, next) THEN Return(tree, page)
     ELSE LET t == append_child(tree, node, next)
              CallIt(s, pg) == Call(s, next_tag_code(tree), pg)
          IN  Scan(t, page, CallIt, Fails)

-----------------------------------------------------------------------------
Tag(n) == tree.node[n].token.tag
Value(n) == tree.node[n].token.value

\* The texts in the first title.
extract_title ==
  LET pre(n, d) ==
        Visited("VISIT_NORMAL",
                IF Tag(n) = "title" THEN [d EXCEPT !.begin = TRUE]
                ELSE IF d.begin /\ Tag(n) = "text" THEN [d EXCEPT !.title = Append(@, n)] ELSE d)
      post(n, d) == Visited(IF Tag(n) = "title" THEN "VISIT_FINISH" ELSE "VISIT_NORMAL", d)
  IN  html_tree_visit(tree, pre, post, [begin |-> FALSE, title |-> << >>]).title

\* The texts, but for titles, options and short texts in anchors; a space for some tags.
extract_content ==
  LET add(d, what) == [d EXCEPT !.content = Append(@, what)]
      pre(n, d) ==
        CASE Tag(n) \in {"title", "option"} -> Visited("VISIT_SKIP_CHILD", d)
          [] Tag(n) = "text" -> Visited("VISIT_NORMAL",
                                        IF d.in_anchor /\ Value(n) = "short" THEN d ELSE add(d, n))
          [] Tag(n) \in {"td", "br", "p"} -> Visited("VISIT_NORMAL", add(d, 0))
          [] Tag(n) = "a" -> Visited("VISIT_NORMAL", [d EXCEPT !.in_anchor = TRUE])
          [] OTHER -> Visited("VISIT_NORMAL", d)
      post(n, d) == Visited("VISIT_NORMAL",
                            IF Tag(n) = "a" THEN [d EXCEPT !.in_anchor = FALSE] ELSE d)
  IN  html_tree_visit(tree, pre, post, [in_anchor |-> FALSE, content |-> << >>]).content

\* A link for every href; a text goes to the last link while an anchor or option is open.
IsLink(n) == Value(n) \in {"absolute", "relative"}
extract_link ==
  LET link(n) == [node |-> n, base |-> IF Value(n) = "relative" THEN base_url_ ELSE NULL,
                  text |-> NULL]
      pre(n, d) ==
        IF Len(d.link) = max_links_num THEN Visited("VISIT_FINISH", d)
        ELSE IF Tag(n) = "text" /\ (d.in_anchor \/ d.in_option)
        THEN Visited("VISIT_NORMAL", [d EXCEPT !.link[Len(d.link)].text = n])
        ELSE IF ~ IsLink(n) THEN Visited("VISIT_NORMAL", d)
        ELSE Visited("VISIT_NORMAL", [link |-> Append(d.link, link(n)),
                                      in_anchor |-> d.in_anchor \/ Tag(n) = "a",
                                      in_option |-> d.in_option \/ Tag(n) = "option"])
      post(n, d) == Visited("VISIT_NORMAL", [d EXCEPT !.in_anchor = @ /\ Tag(n) # "a",
                                                      !.in_option = @ /\ Tag(n) # "option"])
  IN  html_tree_visit(tree, pre, post, [link |-> << >>, in_anchor |-> FALSE,
                                        in_option |-> FALSE]).link

\* encode_conv: without a charset neither title nor content is handed out.
Extract ==
  /\ pc = "parsed"
  /\ pc' = "done"
  /\ links_' = extract_link
  /\ title_' = IF charset_ = NULL THEN << >> ELSE extract_title
  /\ content_' = IF charset_ = NULL THEN << >> ELSE extract_content
  /\ UNCHANGED <<tree, head, open, page>>

\* linkExtract_produce, textExtract_produce: what was parsed is copied out, parse_reset.
Produce ==
  /\ pc = "done"
  /\ pc' = "idle"
  /\ tree' = html_tree_clean(tree)
  /\ links_' = << >>
  /\ page' = NoPage
  /\ UNCHANGED <<head, title_, content_, open>>

Next ==
  \/ \E kind \in Pages : Parse(kind)
  \/ ParseTooLong
  \/ AtEndOfPage \/ EndTag \/ StartTag
  \/ Extract \/ Produce

Spec == Init /\ [][Next]_vars

-----------------------------------------------------------------------------
\* The nodes the page asks for, in its order, and those of the tree.
Placed == page.read.placed
Nodes == 1 .. Len(Placed)
ParentOf(n) == tree.node[n].parent
ChildrenOf(n) == tree.node[n].child

\* Every node is in the child list of its parent and in no other; the parent stands before
\* it; what stands between the two is below the parent; a child list has the order of the page.
InPageOrder ==
  /\ \A n \in Nodes : /\ ParentOf(n) \in 0 .. n - 1
                       /\ \A m \in ParentOf(n) + 1 .. n - 1 : ParentOf(m) >= ParentOf(n)
                       /\ \E i \in DOMAIN ChildrenOf(ParentOf(n)) : ChildrenOf(ParentOf(n))[i] = n
  /\ \A n \in Nodes \cup {0} : \A i \in DOMAIN ChildrenOf(n) :
       /\ ChildrenOf(n)[i] \in Nodes /\ ParentOf(ChildrenOf(n)[i]) = n
       /\ \A j \in 1 .. i - 1 : ChildrenOf(n)[j] < ChildrenOf(n)[i]

\* No text and no start tag of a page is lost, doubled or moved, however its tags are nested,
\* also when memory runs out on the way: the tree has them in the order of the page.  And
\* when the tags of a page are nested well, each is below the element it stands in.
\* (html_tree_parse_sub_tree ends a node by its end tag, by that of a node above, by a tag
\* that is no child of it and by its depth, and a token read ahead is handled by the node
\* that is left.)
Nesting ==
  pc \in {"parsed", "done"} =>
    /\ DOMAIN tree.node = Nodes \cup {0}
    /\ \A n \in Nodes : tree.node[n].token = Placed[n]
    /\ InPageOrder
    /\ page.read.ok => \A n \in Nodes : ParentOf(n) = page.read.parent[n]

Texts == {n \in Nodes : Placed[n].tag = "text"}
Below(n, tags) == \E a \in Ancestors(tree, n) : Placed[a].tag \in tags

\* What the last base of the first head says, or the page's URL.
FirstOf(tag) == LET some == {n \in Nodes : Placed[n].tag = tag}
                IN  IF some = {} THEN 0 ELSE Min(some)
Bases == {n \in Nodes : /\ Placed[n].tag = "base" /\ Placed[n].value # ""
                        /\ FirstOf("head") # 0 /\ ParentOf(n) = FirstOf("head")}
BaseOf == IF Bases = {} THEN 0 ELSE Max(Bases)

\* The nodes a visit meets.
Met == html_tree_visit(tree, LAMBDA n, d : Visited("VISIT_NORMAL", Append(d, n)),
                             LAMBDA n, d : Visited("VISIT_NORMAL", d), << >>)

\* The first links in the order of the page, each with the base of this page's head and a
\* text that stands between it and the next link; one is left out only behind a full list.
OwnLinks ==
  /\ Len(links_) <= max_links_num
  /\ \A i \in DOMAIN links_ :
       LET l == links_[i]
       IN  /\ l.node \in Nodes /\ IsLink(l.node)
           /\ \A j \in 1 .. i - 1 : links_[j].node < l.node
           /\ l.base = IF Value(l.node) = "relative" THEN BaseOf ELSE NULL
           /\ l.text # NULL => /\ l.text \in Texts /\ l.text > l.node
                               /\ \A n \in Nodes : IsLink(n) /\ n > l.node => n > l.text
  /\ \A n \in Nodes : IsLink(n) =>
       \/ \E i \in DOMAIN links_ : links_[i].node = n
       \/ Len(links_) = max_links_num /\ \A i \in DOMAIN links_ : links_[i].node < n

\* The texts of the first title.
OwnTitle ==
  ToSet(title_) = {n \in Texts : /\ charset_ # NULL
                                 /\ FirstOf("title") # 0 /\ FirstOf("title") \in Ancestors(tree, n)}

\* Texts in their order: those under no title, option or anchor all, those under a title or
\* option none.
OwnContent ==
  /\ \A i \in DOMAIN content_ : \A j \in 1 .. i - 1 : content_[i] # 0 => content_[j] < content_[i]
  /\ ToSet(content_) \ {0} \subseteq {n \in Texts : ~ Below(n, {"title", "option"})}
  /\ charset_ # NULL => {n \in Texts : ~ Below(n, {"title", "option", "a"})} \subseteq ToSet(content_)

\* What the parser hands out is of the page just parsed, whatever the same parser parsed
\* before, and memory that ran out: a visit meets the nodes in their order, and links, title
\* and content are its own.  Of a page it refuses it hands out no link.
OwnResults ==
  pc = "done" =>
    IF page.refused THEN links_ = << >>
    ELSE /\ Met = [i \in 1 .. Len(Placed) + 1 |-> i - 1]
         /\ OwnLinks /\ OwnTitle /\ OwnContent
=============================================================================
