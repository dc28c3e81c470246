CONSTANTS
 Path={p1,p2}
 Content={x,y}
 NoFile=NoFile
 Protected={}
 MaxVersion=2
 MaxEdits=2
 MaxFails=1
 EditsInClone=FALSE
SPECIFICATION DatasetSpec
INVARIANTS PushedTreeIsTheDraft
CHECK_DEADLOCK FALSE
