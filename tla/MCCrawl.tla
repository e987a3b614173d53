------------------------------ MODULE MCCrawl -------------------------------
EXTENDS CrawlService, TLC

CONSTANTS p1, p2, p3

OnePage == {p1}
TwoPages == {p1, p2}
ThreePages == {p1, p2, p3}

DeleteOnly == {"delete"}
NoEvents == {}
=============================================================================
