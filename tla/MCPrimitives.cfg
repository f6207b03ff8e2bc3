SPECIFICATION Spec
CONSTANTS
  Job <- MCJob
  Published <- MCPublished
INVARIANTS TypeOK AnswersAsPublished ConstantsAreRoots ClocksTellApart
PROPERTIES StepsAreStandard
