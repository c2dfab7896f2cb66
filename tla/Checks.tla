------------------------------- MODULE Checks -------------------------------
(* The trusted checks of APPLICATION challenges: domains/application/        *)
(* checks.py.  They judge measurements of the built page, one layout per     *)
(* viewport; ratios are in percent and lengths in whole pixels.              *)
EXTENDS Integers, Sequences, FiniteSets, SequencesExt

\* A box as the browser measures it; right and bottom are its other edges.
Right(b) == b.x + b.width
Bottom(b) == b.y + b.height

\* The elements that the selectors match, selector by selector.
Matches(layout, selector) ==
  IF selector \in DOMAIN layout.elements THEN layout.elements[selector] ELSE <<>>
Elements(layout, p) ==
  FlattenSeq([i \in DOMAIN p.selectors |-> Matches(layout, p.selectors[i])])

AllVisible(es) == \A i \in DOMAIN es : es[i].box.visible

---------------------------------------------------------------------------
(* One layout against one check's parameters *)

Row(layout, p) ==
  LET es == Elements(layout, p)
      boxes == [i \in DOMAIN es |-> es[i].box]
  IN /\ Len(es) = p.count /\ AllVisible(es)
     /\ \A i \in 1..(Len(es) - 1) : Right(boxes[i]) <= boxes[i + 1].x + p.tolerance
     /\ \A i, j \in DOMAIN boxes : Bottom(boxes[i]) > boxes[j].y
     /\ \A i \in DOMAIN boxes : 100 * boxes[i].width >= layout.viewport_width * p.min_width_ratio

\* From top to bottom; boxes that start level keep the selectors' order.
Above(boxes, i, j) == boxes[i].y < boxes[j].y \/ (boxes[i].y = boxes[j].y /\ i < j)
NextBelow(boxes, i, j) ==
  Above(boxes, i, j) /\ ~\E k \in DOMAIN boxes : Above(boxes, i, k) /\ Above(boxes, k, j)

\* Only the first selected element has a least width.
Stack(layout, p) ==
  LET es == Elements(layout, p)
      boxes == [i \in DOMAIN es |-> es[i].box]
  IN /\ Len(es) = p.count /\ AllVisible(es)
     /\ \A i, j \in DOMAIN boxes : NextBelow(boxes, i, j) => Bottom(boxes[i]) <= boxes[j].y + p.tolerance
     /\ 100 * boxes[1].width >= layout.viewport_width * p.min_width_ratio
     /\ \/ p.max_width_ratio = 0
        \/ \A i \in DOMAIN boxes :
             100 * (boxes[i].width - p.tolerance) <= layout.viewport_width * p.max_width_ratio

Visible(layout, p) ==
  LET es == Elements(layout, p)
      InFold(b) == 0 <= b.y /\ b.y < Bottom(b) /\ Bottom(b) <= layout.viewport_height
  IN /\ Len(es) = p.count /\ AllVisible(es)
     /\ p.above_fold => \A i \in DOMAIN es : InFold(es[i].box)

Clickable(layout, p) ==
  LET es == Elements(layout, p)
  IN /\ Len(es) = p.count /\ AllVisible(es)
     /\ \A i \in DOMAIN es :
          /\ es[i].hit /\ ~es[i].disabled
          /\ es[i].tag = "button" \/ (es[i].tag = "a" /\ es[i].href # "")

Structure(layout, p) ==
  \A i \in DOMAIN p.selectors : Len(Matches(layout, p.selectors[i])) = 1

TextsKept(layout, p) ==
  LET es == Elements(layout, p)
  IN [i \in DOMAIN es |-> es[i].text] = p.texts /\ AllVisible(es)

Destinations(layout, p) ==
  LET es == Elements(layout, p) IN [i \in DOMAIN es |-> es[i].href] = p.texts

\* One featured element differs from every peer by background or border.
Prominent(layout, p) ==
  LET featured == Matches(layout, p.selectors[1])
      peers == Matches(layout, p.selectors[2])
  IN /\ Len(featured) = 1 /\ Len(peers) = p.count - 1
     /\ featured[1].box.visible /\ AllVisible(peers)
     /\ \A i \in DOMAIN peers :
          \/ featured[1].background # peers[i].background
          \/ featured[1].border_width >= 2 /\ featured[1].border_color # peers[i].border_color

NoOverflow(layout) == layout.scroll_width <= layout.viewport_width + 1

---------------------------------------------------------------------------
(* Facts about one build against one check *)

\* Each protected landmark appears once in the starter page and once, unchanged,
\* in the result.  A page is the sequence of blocks found for each tag.
LandmarksUnchanged(starter, result, tags) ==
  \A i \in DOMAIN tags : Len(starter[tags[i]]) = 1 /\ result[tags[i]] = starter[tags[i]]

LayoutChecks == {"horizontal_row", "vertical_stack", "element_visible", "element_clickable",
                 "required_structure", "text_preserved", "link_destinations",
                 "element_prominent", "no_horizontal_overflow"}
NonBrowserChecks == {"build_succeeds", "protected_files_unchanged", "protected_markup_unchanged"}
Implementations == LayoutChecks \cup NonBrowserChecks \cup {"interaction"}

Measures(implementation, layout, p) ==
  CASE implementation = "horizontal_row" -> Row(layout, p)
    [] implementation = "vertical_stack" -> Stack(layout, p)
    [] implementation = "element_visible" -> Visible(layout, p)
    [] implementation = "element_clickable" -> Clickable(layout, p)
    [] implementation = "required_structure" -> Structure(layout, p)
    [] implementation = "text_preserved" -> TextsKept(layout, p)
    [] implementation = "link_destinations" -> Destinations(layout, p)
    [] implementation = "element_prominent" -> Prominent(layout, p)
    [] implementation = "no_horizontal_overflow" -> NoOverflow(layout)

\* Every viewport of the check was measured and satisfies it; the fold only
\* counts in the first.
LayoutCheck(implementation, facts, p) ==
  \A i \in DOMAIN p.viewports :
    /\ p.viewports[i] \in DOMAIN facts.layouts
    /\ LET first == p.viewports[i] = p.viewports[1]
       IN Measures(implementation, facts.layouts[p.viewports[i]],
                   [p EXCEPT !.above_fold = @ /\ first])

\* CheckParameters: what a stored check may say at all.
Actions == {"fill", "select", "click", "press", "text", "count", "visible", "hidden", "attribute"}
ValidParameters(p) ==
  /\ p.count \in 1..20 /\ p.min_width_ratio \in 0..100 /\ p.max_width_ratio \in 0..100
  /\ p.tolerance \in 0..10
  /\ Len(p.selectors) <= 10 /\ \A i \in DOMAIN p.selectors : p.selectors[i] # ""
  /\ Range(p.tags) \subseteq {"header", "footer", "nav", "section"}
  /\ Len(p.steps) <= 20 /\ \A i \in DOMAIN p.steps : p.steps[i].action \in Actions

\* Mutant: a check that measures a page need not say in which views.
ValidCheckAnyViews(c) ==
  LET kind == c.implementation
      p == c.parameters
  IN /\ kind \in Implementations /\ ValidParameters(p)
     /\ kind \notin NonBrowserChecks \cup {"no_horizontal_overflow", "interaction"} => p.selectors # <<>>
     /\ kind = "interaction" => p.steps # <<>>
     /\ kind = "protected_markup_unchanged" => p.tags # <<>>

\* ApplicationCheckRegistry.validate.
ValidCheck(c) ==
  LET kind == c.implementation
      p == c.parameters
  IN /\ kind \in Implementations /\ ValidParameters(p)
     /\ kind \notin NonBrowserChecks => p.viewports # <<>>
     /\ kind \notin NonBrowserChecks \cup {"no_horizontal_overflow", "interaction"} => p.selectors # <<>>
     /\ kind = "interaction" => p.steps # <<>>
     /\ kind = "protected_markup_unchanged" => p.tags # <<>>
     /\ kind \in {"horizontal_row", "vertical_stack", "element_prominent"} => p.count >= 2
     /\ kind = "element_prominent" => Len(p.selectors) = 2
     /\ kind \in {"text_preserved", "link_destinations"} => Len(p.texts) = p.count

\* The verdict of one check; an interaction was already judged in the browser.
PassesCheck(c, facts) ==
  CASE c.implementation = "build_succeeds" -> facts.build_succeeded
    [] c.implementation = "protected_files_unchanged" -> facts.protected_files_unchanged
    [] c.implementation = "protected_markup_unchanged" ->
         LandmarksUnchanged(facts.starter_html, facts.result_html, c.parameters.tags)
    [] c.implementation = "interaction" ->
         c.id \in DOMAIN facts.behavior_results /\ facts.behavior_results[c.id]
    [] c.implementation \in LayoutChecks -> LayoutCheck(c.implementation, facts, c.parameters)

\* ApplicationCheckRegistry.evaluate: one result per check, in their order.
EvaluateChecks(checks, facts) ==
  [i \in DOMAIN checks |-> [check |-> checks[i].id, passed |-> PassesCheck(checks[i], facts)]]
=============================================================================
