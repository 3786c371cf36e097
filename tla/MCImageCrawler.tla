--------------------------- MODULE MCImageCrawler ---------------------------
(* A small instance of ImageCrawler.                                       *)
EXTENDS ImageCrawler, TLC

\* URLs are only ever compared with each other.
Pages == Permutations(Url)
=============================================================================
