---------------------- MODULE MCElasticsearchMigration ----------------------
EXTENDS ElasticsearchMigration

ES(major, minor) == [product |-> "elasticsearch", major |-> major, minor |-> minor]
OS(major, minor) == [product |-> "opensearch", major |-> major, minor |-> minor]

\* Versions on both sides of every bound of the check.
MCVersions == {ES(6, 8), ES(7, 0), ES(7, 10), ES(7, 11), OS(2, 15), OS(3, 0)}

OneDocument(aliases, policy, created) ==
    [docs |-> 1, aliases |-> aliases, policy |-> policy, created |-> created]

MCFirstSources ==
    {[i \in {"logs", "users"} |->
        IF i = "logs" THEN OneDocument("write", "hot", ES(7, 10))
                      ELSE OneDocument("read", "keep", v)] : v \in MCVersions \ {ES(7, 10)}}
=============================================================================
