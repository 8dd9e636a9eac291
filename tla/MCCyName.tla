------------------------------ MODULE MCCyName ------------------------------
EXTENDS CyName

\* CY_TOPIC_NAME_MAX scaled to 4, so CY_NAMESPACE_NAME_MAX is 2.
MCNameMax == 4
\* CY_TOTAL_SUBJECT_COUNT scaled to 11: "1" and "10" are pinned, "11" is not.
MCTotalSubjectCount == 11
MCTopicSubjectCount == 2
MCSubjectIdInvalid == 65535
\* cy->name as cy_new formats it: digits, '/' and a trailing '/'.
MCUser == <<"a", "/">>
\* NULL/"" (default "/"), "~" (the node name), "a", and one cut to two
\* characters.
MCNamespaceArgs == {<<>>, <<"~">>, <<"a">>, <<"a", "a", "a">>}
MCChars == {"/", "~", "a", "0", "1"}
MCRawNames == BoundedSeq(MCChars, 3)
=============================================================================
