---------------------------- MODULE MCHtmlParser ----------------------------
(* Pages around a head, and pages of links and texts.                        *)
EXTENDS HtmlParser

MCStart(tag) == Token("start", tag, "")
MCHref(tag, to) == Token("start", tag, to)
MCEnd(tag) == Token("end", tag, "")
MCText(size) == Token("text", "text", size)

MCHead == {MCStart("head"), MCEnd("head"), MCHref("base", "absolute"), MCHref("meta", "charset"),
           MCStart("title"), MCEnd("title"), MCHref("a", "relative"), MCText("short")}
MCBody == {MCHref("a", "relative"), MCHref("a", "inner"), MCEnd("a"), MCStart("div"), MCEnd("div"),
           MCHref("x", "absolute"), MCEnd("x"), MCStart("option"), MCStart("br"),
           MCText("short"), MCText("long")}
MCPages == {[begin |-> << >>, more |-> MCHead],
            [begin |-> <<MCStart("head"), MCHref("meta", "charset"), MCEnd("meta"), MCEnd("head")>>,
             more |-> MCBody]}
=============================================================================
