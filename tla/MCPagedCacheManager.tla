------------------------ MODULE MCPagedCacheManager ------------------------
(***************************************************************************)
(* A finite instance of PagedCacheManager: prompts of up to three pages, a *)
(* text page that branches off, and a media page whose edge hash collides  *)
(* with a text page under another media key.                               *)
(***************************************************************************)
EXTENDS PagedCacheManager

CONSTANTS text, media, h1, h2, q1, q2, q3, q4, q5

MCPageOrder == <<q1, q2, q3, q4, q5>>
MCHolder == {h1, h2}
MCPrompt == {<<text>>, <<text, text>>, <<text, text, text>>, <<media>>}
MCEdgeHash == [b \in {text, media} |-> 1]
MCExtraKey == [b \in {text, media} |-> IF b = media THEN 1 ELSE 0]

\* The holders are interchangeable, and so are the pages once they are pushed:
\* every step treats them alike.
Symmetric == Permutations(MCHolder) \cup Permutations(Page)

\* Only whether a page and its node agree on their timestamp decides anything,
\* and a new timestamp is larger than all the old ones: states that agree on
\* the rest and on this have the same futures.
View ==
  <<freePages, triePages, freePagesSet, triePagesSet, pageRefCount, pageToTrieNode,
    [n \in DOMAIN trieNodes |->
       <<trieNodes[n].pageId, trieNodes[n].extraKey,
         pageTimestamp[trieNodes[n].pageId] = trieNodes[n].timestamp>>],
    pageIndex, tokens, content>>
=============================================================================
